---- MODULE Spec2Model ----
(***************************************************************************)
(* Model of the room synchronisation logic of the collaborative pad       *)
(* (RoomView + syncService / supabaseService).  The repository carries    *)
(* several revisions of the same component; each is modelled as a         *)
(* variant, selected by the variable `variant`:                           *)
(*   "bc"   broadcast RoomSyncChannel  (syncService.ts 1-376,             *)
(*          RoomView of unnamed/part_005 1-461)                           *)
(*   "dp"   change-feed RoomView with typing suppression                  *)
(*          (unnamed/part_005 463-859, supabaseService.ts 92-209)         *)
(*   "lww"  last-writer-wins RoomView (unnamed/part_003,                  *)
(*          supabaseService.ts 1-89); its chat handler is not modelled    *)
(*   "merge" the function merge of unnamed/part_003 on its own            *)
(* Store writes succeed and no session is torn down.                      *)
(***************************************************************************)
EXTENDS Integers, Sequences, FiniteSets, TLC

\* ------------------------------------------------------------------ bounds
MaxEdits == 2
MaxPeerEdits == 1
MaxChatEdits == 1
MaxSends == 1
MaxQuickSends == 2
MaxOpenEdits == 1
MaxFailEdits == 3
MaxPresenceEdits == 1
MaxChannelEdits == 1
MaxChunks == 1
MaxLwwEdits == 3
MaxStamp == 2

Clients == {"c1", "c2", "c3"}
Contents == {"", "a", "b"}

NoContent == "none"

VARIABLES
  variant,            \* which revision of the component runs
  connected,          \* the clients that have the room open and are subscribed
  now,                \* Date.now()
  store,              \* the row of table rooms for this room
  data,               \* [client -> RoomData]   React state `data`
  isTyping,           \* isTypingRef.current
  typingTimeout,      \* number of armed typing timers (0 or 1 in the code)
  saveTimeout,        \* number of armed debounce timers (0 or 1 in the code)
  saveWithTyping,     \* the armed debounce timer was armed by the same edit as the typing timer
  pendingRoom,        \* RoomSyncChannel.pendingRoom / pendingRef
  lastSavedContent,   \* RoomSyncChannel.lastSavedContent / lastSavedContentRef
  lastSavedMessages,  \* RoomSyncChannel.lastSavedMessages / lastSavedMessagesRef
  lastSent,           \* lastSentRef ("lww")
  serverState,        \* serverStateRef ("lww")
  inflight,           \* [client -> Seq of store writes awaiting completion]
  inbox,              \* [client -> Seq of realtime events not yet handled]
  isAILoading,        \* React state isAILoading
  aiMsgId,            \* id of the placeholder of the outstanding send (0: none)
  aiChunks,           \* chunks delivered so far by streamAIResponse
  editsLeft,          \* [client -> edits the user may still make]
  sendsLeft,          \* [client -> chat sends the user may still make]
  mergeArgs,          \* the arguments of the function studied on its own: the two
                      \* snapshots of merge, the transcript and window of the AI call,
                      \* the room id and the stored item of getRoom
  mergeOut,           \* <<>>, then the tuple of results once the function was applied
  lastTyped,          \* history: argument of the client's last handleContentChange
  edited,             \* history: the client has edited
  burst,              \* history: the current debounce window of the client
  durable,            \* history: a write of the client carrying lastTyped has reached the store
  persisted,          \* history: fingerprint of the client's last completed store write
  suppressed,         \* history: a remote content differing from the local one was skipped while typing
  finalized,          \* history: id and text of the reply the client's last completed stream finalized
  exists,             \* the row of this room is present in table rooms
  initStep,           \* [client -> how far init() of the room view has run]
  unmounted,          \* the clients whose effect cleanup has run
  failed,             \* history: a store write of the client has failed since its debounce timer last fired
  presenceState,      \* channel.presenceState(): [client id -> presences tracked under that key]
  presenceDirty,      \* [client -> a presence sync event awaits handling]
  onlineUsers,        \* [client -> React state onlineUsers]
  fetchError,         \* history: [client -> the fetch of its init ended with an error]
  editedAt,           \* history ("lww"): [client -> the clock at its last local edit]
  aiContext,          \* document context handed to the last AI call
  channelStatus,      \* latest status the channel gave its subscribe callback
  connection,         \* last status handed to onConnectionChange
  dropped             \* a broadcast call of the client found no channel or a transport that is down

vars == <<variant, connected, now, store, data, isTyping, typingTimeout, saveTimeout,
          saveWithTyping, pendingRoom, lastSavedContent, lastSavedMessages, lastSent,
          serverState, inflight, inbox, isAILoading, aiMsgId, aiChunks, editsLeft,
          sendsLeft, mergeArgs, mergeOut, lastTyped, edited, burst, durable, persisted,
          suppressed,
          finalized,
          exists,
          initStep,
          unmounted,
          failed,
          presenceState,
          presenceDirty,
          onlineUsers,
          fetchError,
          editedAt,
          aiContext,
          channelStatus,
          connection,
          dropped>>

\* ------------------------------------------------------------ data model
WelcomeMsg == [id |-> 0, senderId |-> "ai", isStreaming |-> FALSE, text |-> 0]

createDefaultRoom == [content |-> "", messages |-> <<WelcomeMsg>>, updatedAt |-> 0]

MsgIds(msgs) == {msgs[i].id : i \in 1..Len(msgs)}

HasId(msgs, id) == \E i \in 1..Len(msgs) : msgs[i].id = id

UniqueIds(msgs) == \A i, j \in 1..Len(msgs) : msgs[i].id = msgs[j].id => i = j

IsStreamingAi(m) == m.isStreaming /\ m.senderId = "ai"

NotStreaming(m) == ~m.isStreaming

\* Array.prototype.find: index of the first element satisfying the test, 0 if none
FindStreamingAi(msgs) ==
  IF \E i \in 1..Len(msgs) : IsStreamingAi(msgs[i])
  THEN CHOOSE i \in 1..Len(msgs) :
         /\ IsStreamingAi(msgs[i])
         /\ \A j \in 1..(i-1) : ~IsStreamingAi(msgs[j])
  ELSE 0

\* prev.messages.map(m => m.id === aiMsgId ? { ...m, text: chunkText } : m)
SetText(msgs, id, t) ==
  [i \in 1..Len(msgs) |-> IF msgs[i].id = id THEN [msgs[i] EXCEPT !.text = t] ELSE msgs[i]]

\* prev.messages.map(m => m.id === aiMsgId ? { ...m, isStreaming: false } : m)
SetFinal(msgs, id) ==
  [i \in 1..Len(msgs) |->
     IF msgs[i].id = id THEN [msgs[i] EXCEPT !.isStreaming = FALSE] ELSE msgs[i]]

Others(c) == connected \ {c}

UserMsg(id) == [id |-> id, senderId |-> "user", isStreaming |-> FALSE, text |-> 0]

PlaceholderAiMsg(id) == [id |-> id, senderId |-> "ai", isStreaming |-> TRUE, text |-> 0]

\* realtime events: a broadcast of content or of messages, or a row change
ContentEvent(c, v) == [type |-> "content", content |-> v, messages |-> <<>>, updatedAt |-> 0, sender |-> c]

MessagesEvent(c, msgs) ==
  [type |-> "messages", content |-> NoContent, messages |-> msgs, updatedAt |-> 0, sender |-> c]

DbEvent(c, row) ==
  [type |-> "db", content |-> row.content, messages |-> row.messages,
   updatedAt |-> row.updatedAt, sender |-> c]

\* payload.new of a row change, as a RoomData
EventRoom(ev) == [content |-> ev.content, messages |-> ev.messages, updatedAt |-> ev.updatedAt]

\* a store write in flight; kind tells what the awaiting caller does on completion
Write(room, kind) == [room |-> room, kind |-> kind]

\* the statuses a channel hands to its subscribe callback
Statuses == {"SUBSCRIBED", "TIMED_OUT", "CLOSED", "CHANNEL_ERROR"}

\* the channel's latest status is not SUBSCRIBED (no status yet: the join is under way
\* and counts as up)
TransportDown(c) == channelStatus[c] \in Statuses \ {"SUBSCRIBED"}

\* this.channel is set: connect() has made the channel and disconnect() has not run
HasChannel(c) == c \in connected

\* channel.send with broadcast.self = false: every other subscriber receives the event
Broadcast(c, ev) ==
  [d \in Clients |-> IF d = c \/ d \notin connected \/ TransportDown(d)
                     THEN inbox[d] ELSE Append(inbox[d], ev)]

\* postgres_changes: every subscriber of the row receives the new row, the writer too
NotifyAll(box, ev) ==
  [d \in Clients |-> IF d \in connected /\ ~TransportDown(d) THEN Append(box[d], ev) ELSE box[d]]

\* variation: the event goes out whatever the state of the channel
broadcastContentAlways(c, content) == Broadcast(c, ContentEvent(c, content))

\* broadcastContent: returns when there is no channel; channel.send does not resolve
\* to 'ok' when the transport is down and the engine only logs that
broadcastContent(c, content) ==
  IF ~HasChannel(c) \/ TransportDown(c) THEN inbox ELSE Broadcast(c, ContentEvent(c, content))

\* broadcastMessages: the same with the message list
broadcastMessages(c, messages) ==
  IF ~HasChannel(c) \/ TransportDown(c) THEN inbox ELSE Broadcast(c, MessagesEvent(c, messages))

\* history: a broadcast call of c was dropped, now or before
Dropped(c) == [dropped EXCEPT ![c] = @ \/ ~HasChannel(c) \/ TransportDown(c)]

\* the argument of onConnectionChange for a status of the channel
connectionStatusTimedOutDown(status) ==
  IF status = "SUBSCRIBED" THEN "connected" ELSE "disconnected"

connectionStatus(status) ==
  IF status = "SUBSCRIBED" THEN "connected"
  ELSE IF status \in {"CLOSED", "CHANNEL_ERROR"} THEN "disconnected"
  ELSE "connecting"

\* content plus message list: what the save paths compare
Fingerprint(room) == [content |-> room.content, messages |-> room.messages]

\* the client has not written yet
NoFingerprint == [content |-> NoContent, messages |-> <<>>]

\* ------------------------------------------------- history bookkeeping
NoFinal == [id |-> 0, text |-> 0]

\* the text streamAIResponse hands to onChunk when the request fails
ErrorText == -1

NoBurst == [edits |-> 0, writes |-> 0, last |-> NoContent, sent |-> NoContent, noop |-> FALSE]

\* a debounce window opens when a timer is armed while none is armed
BurstOnSchedule(c, isEdit, v) ==
  LET b == IF saveTimeout[c] = 0 THEN NoBurst ELSE burst[c]
  IN IF isEdit THEN [b EXCEPT !.edits = b.edits + 1, !.last = v] ELSE b

BurstOnWrite(c, v) == [burst[c] EXCEPT !.writes = burst[c].writes + 1, !.sent = v]

BurstOnNoop(c) == [burst[c] EXCEPT !.noop = TRUE]

Skipped(c, content) == isTyping[c] /\ content # data[c].content

\* variables no edit, save or delivery step touches
fixedVars == <<variant, connected, mergeArgs, mergeOut>>

\* refs of the "lww" revision
lwwVars == <<lastSent, serverState>>

\* state of the chat round trip
aiVars == <<isAILoading, aiMsgId, aiChunks>>

\* ------------------------------------------ broadcast variant ("bc")
\* callbacks of RoomView handed to RoomSyncChannel
\* variation: the typing check is missing
onContentUpdateAlways(room, typing, content) == [room EXCEPT !.content = content]

onContentUpdate(room, typing, content) ==
  IF ~typing THEN [room EXCEPT !.content = content] ELSE room

onMessagesUpdate(room, messages) ==
  LET k == FindStreamingAi(room.messages)
  IN IF k # 0
     THEN [room EXCEPT !.messages = SelectSeq(messages, NotStreaming) \o <<room.messages[k]>>]
     ELSE [room EXCEPT !.messages = messages]

\* one presence as tracked by RoomSyncChannel (clientId, isTyping)
Meta(c, typing) == [clientId |-> c, isTyping |-> typing]

\* channel.track(...): the presence of this connection is replaced
track(state, c, typing) == [state EXCEPT ![c] = <<Meta(c, typing)>>]

\* a change of the presence state raises a presence sync event at every subscriber
SyncAll(dirty) == [d \in Clients |-> dirty[d] \/ d \in connected]

\* variation: the edit is not shown
applyLocalEditDropped(room, v) == room

\* handleContentChange: setData(prev => ({ ...prev, content: newContent }))
applyLocalEdit(room, v) == [room EXCEPT !.content = v]

\* variation: the previous typing timer is left armed
ArmTypingTimerNoClear(n) == n + 1

\* handleContentChange: clearTimeout(typingTimeoutRef.current), then setTimeout(.., 1500)
ArmTypingTimer(n) == 1

\* scheduleSave: clearTimeout(this.saveTimeout) then setTimeout: one armed timer
\* variation: the previous timer is not cleared
ArmSaveTimerNoClear(n) == n + 1

ArmSaveTimer(n) == 1

\* the continuation of `await upsertRoom(this.pendingRoom)` reads this.pendingRoom again
SavedAfterUpsert(c, payload) == pendingRoom[c]

bcHandleContentChange(c, v) ==
  /\ c \in connected
  /\ variant = "bc"
  /\ editsLeft[c] > 0
  /\ v # data[c].content
  /\ LET updatedRoom == applyLocalEdit(data[c], v)
     IN /\ isTyping' = [isTyping EXCEPT ![c] = TRUE]
        /\ typingTimeout' = [typingTimeout EXCEPT ![c] = ArmTypingTimer(typingTimeout[c])]
        /\ data' = [data EXCEPT ![c] = updatedRoom]
        /\ inbox' = broadcastContent(c, v)
        /\ dropped' = Dropped(c)
        /\ pendingRoom' = [pendingRoom EXCEPT ![c] = updatedRoom]
        /\ saveTimeout' = [saveTimeout EXCEPT ![c] = ArmSaveTimer(saveTimeout[c])]
        /\ saveWithTyping' = [saveWithTyping EXCEPT ![c] = TRUE]
  /\ presenceState' = track(presenceState, c, TRUE)
  /\ presenceDirty' = SyncAll(presenceDirty)
  /\ editsLeft' = [editsLeft EXCEPT ![c] = editsLeft[c] - 1]
  /\ lastTyped' = [lastTyped EXCEPT ![c] = v]
  /\ edited' = [edited EXCEPT ![c] = TRUE]
  /\ burst' = [burst EXCEPT ![c] = BurstOnSchedule(c, TRUE, v)]
  /\ durable' = [durable EXCEPT ![c] = FALSE]
  /\ UNCHANGED <<fixedVars, lwwVars, aiVars, now, store, lastSavedContent,
                 lastSavedMessages, inflight, sendsLeft, persisted, suppressed,
                 finalized,
                 exists,
                 initStep,
                 unmounted,
                 failed,
                 onlineUsers,
                 fetchError,
                 editedAt,
                 aiContext,
                 channelStatus,
                 connection>>

\* the setTimeout callback of scheduleSave
bcSaveTimerFires(c) ==
  /\ c \in connected \cup unmounted
  /\ variant = "bc"
  /\ saveTimeout[c] > 0
  /\ failed' = [failed EXCEPT ![c] = FALSE]
  /\ saveTimeout' = [saveTimeout EXCEPT ![c] = saveTimeout[c] - 1]
  /\ LET contentChanged == pendingRoom[c].content # lastSavedContent[c]
         messagesChanged == pendingRoom[c].messages # lastSavedMessages[c]
     IN IF ~contentChanged /\ ~messagesChanged
        THEN /\ burst' = [burst EXCEPT ![c] = BurstOnNoop(c)]
             /\ UNCHANGED inflight
        ELSE /\ inflight' = [inflight EXCEPT ![c] = Append(inflight[c], Write(pendingRoom[c], "save"))]
             /\ burst' = [burst EXCEPT ![c] = BurstOnWrite(c, pendingRoom[c].content)]
  /\ UNCHANGED <<fixedVars, lwwVars, aiVars, now, store, data, isTyping, typingTimeout,
                 saveWithTyping, pendingRoom, lastSavedContent, lastSavedMessages, inbox,
                 editsLeft, sendsLeft, lastTyped, edited, durable, persisted, suppressed,
                 finalized,
                 exists,
                 initStep,
                 unmounted,
                 presenceState,
                 presenceDirty,
                 onlineUsers,
                 fetchError,
                 editedAt,
                 aiContext,
                 channelStatus,
                 connection,
                 dropped>>

\* upsertRoom of syncService: writes id, content and messages; updatedAt is not sent
bcUpsertCompletes(c) ==
  /\ c \in connected \cup unmounted
  /\ variant = "bc"
  /\ inflight[c] # <<>>
  /\ LET payload == Head(inflight[c]).room
         row == [store EXCEPT !.content = payload.content, !.messages = payload.messages]
         saved == SavedAfterUpsert(c, payload)
         byTimer == Head(inflight[c]).kind = "save"
     IN /\ store' = row
        /\ inbox' = NotifyAll(inbox, DbEvent(c, row))
        /\ lastSavedContent' = [lastSavedContent EXCEPT ![c] = IF byTimer THEN saved.content ELSE @]
        /\ lastSavedMessages' = [lastSavedMessages EXCEPT ![c] = IF byTimer THEN saved.messages ELSE @]
        /\ durable' = [durable EXCEPT ![c] = @ \/ payload.content = lastTyped[c]]
        /\ persisted' = [persisted EXCEPT ![c] = Fingerprint(payload)]
  /\ inflight' = [inflight EXCEPT ![c] = Tail(inflight[c])]
  /\ UNCHANGED <<fixedVars, lwwVars, aiVars, now, data, isTyping, typingTimeout,
                 saveTimeout, saveWithTyping, pendingRoom, editsLeft, sendsLeft, lastTyped,
                 edited, burst, suppressed,
                 finalized,
                 exists,
                 initStep,
                 unmounted,
                 failed,
                 presenceState,
                 presenceDirty,
                 onlineUsers,
                 fetchError,
                 editedAt,
                 aiContext,
                 channelStatus,
                 connection,
                 dropped>>

\* channel.on('broadcast', {event: 'sync'}, ...)
bcBroadcastReceived(c) ==
  /\ c \in connected
  /\ variant = "bc"
  /\ inbox[c] # <<>>
  /\ Head(inbox[c]).type \in {"content", "messages"}
  /\ LET ev == Head(inbox[c])
     IN /\ data' = [data EXCEPT ![c] =
                      IF ev.sender = c THEN data[c]
                      ELSE IF ev.type = "content"
                           THEN onContentUpdate(data[c], isTyping[c], ev.content)
                           ELSE onMessagesUpdate(data[c], ev.messages)]
        /\ suppressed' = [suppressed EXCEPT ![c] =
                            @ \/ (ev.type = "content" /\ Skipped(c, ev.content))]
  /\ inbox' = [inbox EXCEPT ![c] = Tail(inbox[c])]
  /\ UNCHANGED <<fixedVars, lwwVars, aiVars, now, store, isTyping, typingTimeout,
                 saveTimeout, saveWithTyping, pendingRoom, lastSavedContent,
                 lastSavedMessages, inflight, editsLeft, sendsLeft, lastTyped, edited,
                 burst, durable, persisted,
                 finalized,
                 exists,
                 initStep,
                 unmounted,
                 failed,
                 presenceState,
                 presenceDirty,
                 onlineUsers,
                 fetchError,
                 editedAt,
                 aiContext,
                 channelStatus,
                 connection,
                 dropped>>

\* channel.on('postgres_changes', ...): content first, then messages
bcDbChangeReceived(c) ==
  /\ c \in connected
  /\ variant = "bc"
  /\ inbox[c] # <<>>
  /\ Head(inbox[c]).type = "db"
  /\ LET ev == Head(inbox[c])
     IN /\ data' = [data EXCEPT ![c] =
                      onMessagesUpdate(onContentUpdate(data[c], isTyping[c], ev.content),
                                       ev.messages)]
        /\ suppressed' = [suppressed EXCEPT ![c] = @ \/ Skipped(c, ev.content)]
  /\ inbox' = [inbox EXCEPT ![c] = Tail(inbox[c])]
  /\ UNCHANGED <<fixedVars, lwwVars, aiVars, now, store, isTyping, typingTimeout,
                 saveTimeout, saveWithTyping, pendingRoom, lastSavedContent,
                 lastSavedMessages, inflight, editsLeft, sendsLeft, lastTyped, edited,
                 burst, durable, persisted,
                 finalized,
                 exists,
                 initStep,
                 unmounted,
                 failed,
                 presenceState,
                 presenceDirty,
                 onlineUsers,
                 fetchError,
                 editedAt,
                 aiContext,
                 channelStatus,
                 connection,
                 dropped>>

\* the typing timer (1500 ms) armed by an edit expires after the debounce timer
\* (500 ms, 300 ms) armed by the same edit; the broadcast variant then calls
\* updatePresence(false)
TypingExpires(c) ==
  /\ c \in connected
  /\ typingTimeout[c] > 0
  /\ ~(saveTimeout[c] > 0 /\ saveWithTyping[c])
  /\ isTyping' = [isTyping EXCEPT ![c] = FALSE]
  /\ typingTimeout' = [typingTimeout EXCEPT ![c] = typingTimeout[c] - 1]
  /\ IF variant = "bc"
     THEN /\ presenceState' = track(presenceState, c, FALSE)
          /\ presenceDirty' = SyncAll(presenceDirty)
     ELSE UNCHANGED <<presenceState, presenceDirty>>
  /\ UNCHANGED <<fixedVars, lwwVars, aiVars, now, store, data, saveTimeout,
                 saveWithTyping, pendingRoom, lastSavedContent, lastSavedMessages,
                 inflight, inbox, editsLeft, sendsLeft, lastTyped, edited, burst, durable,
                 persisted, suppressed,
                 finalized,
                 exists,
                 initStep,
                 unmounted,
                 failed,
                 onlineUsers,
                 fetchError,
                 editedAt,
                 aiContext,
                 channelStatus,
                 connection,
                 dropped>>

bcHandleSendMessage(c) ==
  /\ c \in connected
  /\ variant = "bc"
  /\ sendsLeft[c] > 0
  /\ ~isAILoading[c]
  /\ LET withUserMsg == [data[c] EXCEPT !.messages = Append(data[c].messages, UserMsg(now))]
     IN /\ inbox' = broadcastMessages(c, withUserMsg.messages)
        /\ dropped' = Dropped(c)
        /\ pendingRoom' = [pendingRoom EXCEPT ![c] = withUserMsg]
        /\ data' = [data EXCEPT ![c] =
                      [withUserMsg EXCEPT !.messages =
                         Append(withUserMsg.messages, PlaceholderAiMsg(now + 1))]]
  /\ saveTimeout' = [saveTimeout EXCEPT ![c] = ArmSaveTimer(saveTimeout[c])]
  /\ saveWithTyping' = [saveWithTyping EXCEPT ![c] = FALSE]
  /\ burst' = [burst EXCEPT ![c] = BurstOnSchedule(c, FALSE, NoContent)]
  /\ isAILoading' = [isAILoading EXCEPT ![c] = TRUE]
  /\ aiMsgId' = [aiMsgId EXCEPT ![c] = now + 1]
  /\ aiChunks' = [aiChunks EXCEPT ![c] = 0]
  /\ aiContext' = [aiContext EXCEPT ![c] = data[c].content]
  /\ now' = now + 2
  /\ sendsLeft' = [sendsLeft EXCEPT ![c] = sendsLeft[c] - 1]
  /\ UNCHANGED <<fixedVars, lwwVars, store, isTyping, typingTimeout, lastSavedContent,
                 lastSavedMessages, inflight, editsLeft, lastTyped, edited, durable,
                 persisted, suppressed,
                 finalized,
                 exists,
                 initStep,
                 unmounted,
                 failed,
                 presenceState,
                 presenceDirty,
                 onlineUsers,
                 fetchError,
                 editedAt,
                 channelStatus,
                 connection>>

\* onChunk of streamAIResponse: the cumulative text replaces the placeholder's text
StreamChunk(c) ==
  /\ c \in connected
  /\ isAILoading[c]
  /\ aiMsgId[c] # 0
  /\ aiChunks[c] >= 0
  /\ aiChunks[c] < MaxChunks
  /\ data' = [data EXCEPT ![c] =
                [data[c] EXCEPT !.messages = SetText(data[c].messages, aiMsgId[c], aiChunks[c] + 1)]]
  /\ aiChunks' = [aiChunks EXCEPT ![c] = aiChunks[c] + 1]
  /\ UNCHANGED <<fixedVars, lwwVars, now, store, isTyping, typingTimeout, saveTimeout,
                 saveWithTyping, pendingRoom, lastSavedContent, lastSavedMessages, inflight,
                 inbox, isAILoading, aiMsgId, editsLeft, sendsLeft, lastTyped, edited,
                 burst, durable, persisted, suppressed,
                 finalized,
                 exists,
                 initStep,
                 unmounted,
                 failed,
                 presenceState,
                 presenceDirty,
                 onlineUsers,
                 fetchError,
                 editedAt,
                 aiContext,
                 channelStatus,
                 connection,
                 dropped>>

\* after `await streamAIResponse(...)`: finalize, broadcast, schedule the save
bcFinalize(c, room, text) ==
  /\ LET finalData == [room EXCEPT !.messages = SetFinal(room.messages, aiMsgId[c])]
     IN /\ data' = [data EXCEPT ![c] = finalData]
        /\ inbox' = broadcastMessages(c, finalData.messages)
        /\ dropped' = Dropped(c)
        /\ pendingRoom' = [pendingRoom EXCEPT ![c] = finalData]
  /\ saveTimeout' = [saveTimeout EXCEPT ![c] = ArmSaveTimer(saveTimeout[c])]
  /\ saveWithTyping' = [saveWithTyping EXCEPT ![c] = FALSE]
  /\ burst' = [burst EXCEPT ![c] = BurstOnSchedule(c, FALSE, NoContent)]
  /\ isAILoading' = [isAILoading EXCEPT ![c] = FALSE]
  /\ finalized' = [finalized EXCEPT ![c] = [id |-> aiMsgId[c], text |-> text]]
  /\ aiMsgId' = [aiMsgId EXCEPT ![c] = 0]
  /\ aiChunks' = [aiChunks EXCEPT ![c] = text]
  /\ UNCHANGED <<fixedVars, lwwVars, now, store, isTyping, typingTimeout,
                 lastSavedContent, lastSavedMessages, inflight, editsLeft,
                 sendsLeft, lastTyped, edited, durable, persisted, suppressed,
                 exists, initStep, unmounted, failed, presenceState, presenceDirty,
                 onlineUsers,
                 fetchError,
                 editedAt,
                 aiContext,
                 channelStatus,
                 connection>>

bcStreamCompletes(c) ==
  /\ c \in connected
  /\ variant = "bc"
  /\ isAILoading[c]
  /\ aiMsgId[c] # 0
  /\ aiChunks[c] > 0
  /\ bcFinalize(c, data[c], aiChunks[c])

\* ------------------------------------ change-feed variant ("dp")
\* the subscribeSupabase callback: the incoming row replaces the local snapshot
\* unless the user is typing
dpOnUpdate(room, typing, incoming) == IF ~typing THEN incoming ELSE room

\* saveToServer: nothing to do when content and messages equal the last saved ones
dpUnchanged(c, roomData) ==
  /\ roomData.content = lastSavedContent[c]
  /\ roomData.messages = lastSavedMessages[c]

\* saveToServer up to `await upsertRoom(payload)`; the payload is stamped with Date.now()
dpSaveToServer(c, roomData, kind) ==
  IF dpUnchanged(c, roomData)
  THEN UNCHANGED <<inflight, now>>
  ELSE /\ inflight' = [inflight EXCEPT ![c] =
                         Append(inflight[c], Write([roomData EXCEPT !.updatedAt = now], kind))]
       /\ now' = now + 1

dpHandleContentChange(c, v) ==
  /\ c \in connected
  /\ variant = "dp"
  /\ editsLeft[c] > 0
  /\ v # data[c].content
  /\ isTyping' = [isTyping EXCEPT ![c] = TRUE]
  /\ typingTimeout' = [typingTimeout EXCEPT ![c] = ArmTypingTimer(typingTimeout[c])]
  /\ data' = [data EXCEPT ![c] = applyLocalEdit(data[c], v)]
  /\ saveTimeout' = [saveTimeout EXCEPT ![c] = ArmSaveTimer(saveTimeout[c])]
  /\ saveWithTyping' = [saveWithTyping EXCEPT ![c] = TRUE]
  /\ editsLeft' = [editsLeft EXCEPT ![c] = editsLeft[c] - 1]
  /\ lastTyped' = [lastTyped EXCEPT ![c] = v]
  /\ edited' = [edited EXCEPT ![c] = TRUE]
  /\ burst' = [burst EXCEPT ![c] = BurstOnSchedule(c, TRUE, v)]
  /\ durable' = [durable EXCEPT ![c] = FALSE]
  /\ UNCHANGED <<fixedVars, lwwVars, aiVars, now, store, pendingRoom, lastSavedContent,
                 lastSavedMessages, inflight, inbox, sendsLeft, persisted, suppressed,
                 finalized,
                 exists,
                 initStep,
                 unmounted,
                 failed,
                 presenceState,
                 presenceDirty,
                 onlineUsers,
                 fetchError,
                 editedAt,
                 aiContext,
                 channelStatus,
                 connection,
                 dropped>>

\* the setTimeout callback of handleContentChange: saveToServer(current)
dpSaveTimerFires(c) ==
  /\ c \in connected
  /\ variant = "dp"
  /\ saveTimeout[c] > 0
  /\ failed' = [failed EXCEPT ![c] = FALSE]
  /\ saveTimeout' = [saveTimeout EXCEPT ![c] = saveTimeout[c] - 1]
  /\ dpSaveToServer(c, data[c], "save")
  /\ burst' = [burst EXCEPT ![c] =
                 IF dpUnchanged(c, data[c]) THEN BurstOnNoop(c)
                 ELSE BurstOnWrite(c, data[c].content)]
  /\ UNCHANGED <<fixedVars, lwwVars, aiVars, store, data, isTyping, typingTimeout,
                 saveWithTyping, pendingRoom, lastSavedContent, lastSavedMessages, inbox,
                 editsLeft, sendsLeft, lastTyped, edited, durable, persisted, suppressed,
                 finalized,
                 exists,
                 initStep,
                 unmounted,
                 presenceState,
                 presenceDirty,
                 onlineUsers,
                 fetchError,
                 editedAt,
                 aiContext,
                 channelStatus,
                 connection,
                 dropped>>

\* upsertRoom of supabaseService writes the whole row; then the awaiting caller goes on:
\* saveToServer records the payload as saved, handleSendMessage appends the placeholder
dpUpsertCompletes(c) ==
  /\ c \in connected \cup unmounted
  /\ variant = "dp"
  /\ inflight[c] # <<>>
  /\ LET w == Head(inflight[c])
         payload == w.room
     IN /\ store' = payload
        /\ inbox' = NotifyAll(inbox, DbEvent(c, payload))
        /\ lastSavedContent' = [lastSavedContent EXCEPT ![c] = payload.content]
        /\ lastSavedMessages' = [lastSavedMessages EXCEPT ![c] = payload.messages]
        /\ durable' = [durable EXCEPT ![c] = @ \/ payload.content = lastTyped[c]]
        /\ persisted' = [persisted EXCEPT ![c] = Fingerprint(payload)]
        /\ IF w.kind = "send"
           THEN /\ isAILoading' = [isAILoading EXCEPT ![c] = TRUE]
                /\ data' = [data EXCEPT ![c] =
                              [data[c] EXCEPT !.messages = Append(data[c].messages,
                                                                  PlaceholderAiMsg(now + 1))]]
                /\ aiMsgId' = [aiMsgId EXCEPT ![c] = now + 1]
                /\ aiChunks' = [aiChunks EXCEPT ![c] = 0]
                /\ aiContext' = [aiContext EXCEPT ![c] = payload.content]
                /\ now' = now + 2
           ELSE UNCHANGED <<aiVars, data, now, aiContext>>
  /\ inflight' = [inflight EXCEPT ![c] = Tail(inflight[c])]
  /\ UNCHANGED <<fixedVars, lwwVars, isTyping, typingTimeout, saveTimeout, saveWithTyping,
                 pendingRoom, editsLeft, sendsLeft, lastTyped, edited, burst, suppressed,
                 finalized,
                 exists,
                 initStep,
                 unmounted,
                 failed,
                 presenceState,
                 presenceDirty,
                 onlineUsers,
                 fetchError,
                 editedAt,
                 channelStatus,
                 connection,
                 dropped>>

\* a row change reaches the client
dpReceived(c) ==
  /\ c \in connected
  /\ variant = "dp"
  /\ inbox[c] # <<>>
  /\ LET incoming == EventRoom(Head(inbox[c]))
     IN /\ data' = [data EXCEPT ![c] = dpOnUpdate(data[c], isTyping[c], incoming)]
        /\ lastSavedContent' = [lastSavedContent EXCEPT ![c] =
                                  IF ~isTyping[c] THEN incoming.content ELSE @]
        /\ lastSavedMessages' = [lastSavedMessages EXCEPT ![c] =
                                   IF ~isTyping[c] THEN incoming.messages ELSE @]
        /\ suppressed' = [suppressed EXCEPT ![c] = @ \/ Skipped(c, incoming.content)]
  /\ inbox' = [inbox EXCEPT ![c] = Tail(inbox[c])]
  /\ UNCHANGED <<fixedVars, lwwVars, aiVars, now, store, isTyping, typingTimeout,
                 saveTimeout, saveWithTyping, pendingRoom, inflight, editsLeft, sendsLeft,
                 lastTyped, edited, burst, durable, persisted,
                 finalized,
                 exists,
                 initStep,
                 unmounted,
                 failed,
                 presenceState,
                 presenceDirty,
                 onlineUsers,
                 fetchError,
                 editedAt,
                 aiContext,
                 channelStatus,
                 connection,
                 dropped>>

\* handleSendMessage up to `await saveToServer(withUserMsg)`; Chat.handleSubmit lets
\* the send through unless isLoading, which is set only after that await
dpHandleSendMessage(c) ==
  /\ c \in connected
  /\ variant = "dp"
  /\ sendsLeft[c] > 0
  /\ ~isAILoading[c]
  /\ LET withUserMsg == [data[c] EXCEPT !.messages = Append(data[c].messages, UserMsg(now))]
     IN /\ data' = [data EXCEPT ![c] = withUserMsg]
        /\ dpSaveToServer(c, withUserMsg, "send")
  /\ sendsLeft' = [sendsLeft EXCEPT ![c] = sendsLeft[c] - 1]
  /\ UNCHANGED <<fixedVars, lwwVars, aiVars, store, isTyping, typingTimeout, saveTimeout,
                 saveWithTyping, pendingRoom, lastSavedContent, lastSavedMessages, inbox,
                 editsLeft, lastTyped, edited, burst, durable, persisted, suppressed,
                 finalized,
                 exists,
                 initStep,
                 unmounted,
                 failed,
                 presenceState,
                 presenceDirty,
                 onlineUsers,
                 fetchError,
                 editedAt,
                 aiContext,
                 channelStatus,
                 connection,
                 dropped>>

\* after `await streamAIResponse(...)`: finalize and saveToServer(finalData)
dpFinalize(c, room, text) ==
  /\ LET finalData == [room EXCEPT !.messages = SetFinal(room.messages, aiMsgId[c])]
     IN /\ data' = [data EXCEPT ![c] = finalData]
        /\ dpSaveToServer(c, finalData, "final")
  /\ isAILoading' = [isAILoading EXCEPT ![c] = FALSE]
  /\ finalized' = [finalized EXCEPT ![c] = [id |-> aiMsgId[c], text |-> text]]
  /\ aiMsgId' = [aiMsgId EXCEPT ![c] = 0]
  /\ aiChunks' = [aiChunks EXCEPT ![c] = text]
  /\ UNCHANGED <<fixedVars, lwwVars, store, isTyping, typingTimeout, saveTimeout,
                 saveWithTyping, pendingRoom, lastSavedContent, lastSavedMessages, inbox,
                 editsLeft, sendsLeft, lastTyped, edited, burst, durable,
                 persisted, suppressed, exists, initStep, unmounted, failed,
                 presenceState, presenceDirty, onlineUsers,
                 fetchError,
                 editedAt,
                 aiContext,
                 channelStatus,
                 connection,
                 dropped>>

dpStreamCompletes(c) ==
  /\ c \in connected
  /\ variant = "dp"
  /\ isAILoading[c]
  /\ aiMsgId[c] # 0
  /\ aiChunks[c] > 0
  /\ dpFinalize(c, data[c], aiChunks[c])

\* what can make the request or the stream throw
Causes == {"key", "auth", "quota", "network"}

\* variation: a network failure yields the text streamed so far
errorTextPartial(cause, fullText) == IF cause = "network" THEN fullText ELSE ErrorText

\* the catch block of streamAIResponse picks a message for every cause; all of them are
\* error sentences, which the model does not tell apart
errorText(cause, fullText) == ErrorText

\* the catch block of streamAIResponse hands the error text to onChunk and returns it;
\* the caller's continuation runs in the same turn of the event loop, so the
\* finalization directly follows the error chunk
StreamFails(c) ==
  /\ c \in connected
  /\ variant \in {"bc", "dp"}
  /\ isAILoading[c]
  /\ aiMsgId[c] # 0
  /\ aiChunks[c] >= 0
  /\ \E cause \in Causes :
       LET text == errorText(cause, aiChunks[c])
           room == [data[c] EXCEPT !.messages = SetText(data[c].messages, aiMsgId[c], text)]
       IN IF variant = "bc" THEN bcFinalize(c, room, text) ELSE dpFinalize(c, room, text)

\* ------------------------------------ presence ("bc")
\* the order in which Object.values lists the keys of the presence state
ClientOrder == <<"c1", "c2", "c3">>

RECURSIVE FlatFrom(_, _)
FlatFrom(state, k) ==
  IF k > Len(ClientOrder) THEN <<>> ELSE state[ClientOrder[k]] \o FlatFrom(state, k + 1)

RECURSIVE MapUsers(_)
MapUsers(ps) ==
  IF ps = <<>> THEN <<>>
  ELSE <<[id |-> Head(ps).clientId, isTyping |-> Head(ps).isTyping]>> \o MapUsers(Tail(ps))

\* the presence handler of connect(): Object.values(state).flat().map(...)
PresenceUsers(state) == MapUsers(FlatFrom(state, 1))

NotId(id, u) == u.id # id

\* variation: the new users are added to the ones already shown
onPresenceUpdateKeep(prev, users, id) ==
  prev \o SelectSeq(users, LAMBDA u : NotId(id, u) /\ \A i \in 1..Len(prev) : prev[i] # u)

\* onPresenceUpdate: setOnlineUsers(users.filter(u => u.id !== id))
onPresenceUpdate(prev, users, id) == SelectSeq(users, LAMBDA u : NotId(id, u))

\* the subscribe callback with status SUBSCRIBED: the client tracks its presence
bcSubscribed(c) ==
  /\ c \in connected
  /\ variant = "bc"
  /\ presenceState[c] = <<>>
  /\ channelStatus' = [channelStatus EXCEPT ![c] = "SUBSCRIBED"]
  /\ connection' = [connection EXCEPT ![c] = connectionStatus("SUBSCRIBED")]
  /\ presenceState' = track(presenceState, c, FALSE)
  /\ presenceDirty' = SyncAll(presenceDirty)
  /\ UNCHANGED <<fixedVars, lwwVars, aiVars, now, store, data, isTyping, typingTimeout,
                 saveTimeout, saveWithTyping, pendingRoom, lastSavedContent,
                 lastSavedMessages, inflight, inbox, editsLeft, sendsLeft, lastTyped, edited,
                 burst, durable, persisted, suppressed, finalized, exists, initStep,
                 unmounted, failed, onlineUsers,
                 fetchError,
                 editedAt,
                 aiContext,
                 dropped>>

\* the subscribe callback, for a later status of a channel that has been joined:
\* onConnectionChange with the status mapped, and on SUBSCRIBED the presence again
bcChannelStatus(c) ==
  /\ c \in connected
  /\ variant = "bc"
  /\ channelStatus[c] # "none"
  /\ \E status \in Statuses :
       /\ channelStatus' = [channelStatus EXCEPT ![c] = status]
       /\ connection' = [connection EXCEPT ![c] = connectionStatus(status)]
       /\ IF status = "SUBSCRIBED"
          THEN /\ presenceState' = track(presenceState, c, FALSE)
               /\ presenceDirty' = SyncAll(presenceDirty)
          ELSE UNCHANGED <<presenceState, presenceDirty>>
  /\ UNCHANGED <<fixedVars, lwwVars, aiVars, now, store, data, isTyping, typingTimeout,
                 saveTimeout, saveWithTyping, pendingRoom, lastSavedContent,
                 lastSavedMessages, inflight, inbox, editsLeft, sendsLeft, lastTyped, edited,
                 burst, durable, persisted, suppressed, finalized, exists, initStep,
                 unmounted, failed, onlineUsers, fetchError, editedAt, aiContext, dropped>>

\* the AI call of a view that has been unmounted ends: setIsAILoading(false) and
\* setData(updater). Whether the updater of an unmounted component is run is the
\* renderer's choice; when it runs it broadcasts on the channel object that
\* disconnect() has emptied and schedules a save of the finalized snapshot
bcStreamEndsUnmounted(c) ==
  /\ c \in unmounted
  /\ variant = "bc"
  /\ isAILoading[c]
  /\ aiMsgId[c] # 0
  /\ isAILoading' = [isAILoading EXCEPT ![c] = FALSE]
  /\ aiMsgId' = [aiMsgId EXCEPT ![c] = 0]
  /\ \E runs \in BOOLEAN :
       IF runs
       THEN LET finalData == [data[c] EXCEPT !.messages = SetFinal(data[c].messages, aiMsgId[c])]
            IN /\ inbox' = broadcastMessages(c, finalData.messages)
               /\ dropped' = Dropped(c)
               /\ pendingRoom' = [pendingRoom EXCEPT ![c] = finalData]
               /\ saveTimeout' = [saveTimeout EXCEPT ![c] = ArmSaveTimer(saveTimeout[c])]
               /\ saveWithTyping' = [saveWithTyping EXCEPT ![c] = FALSE]
               /\ burst' = [burst EXCEPT ![c] = BurstOnSchedule(c, FALSE, NoContent)]
       ELSE UNCHANGED <<inbox, dropped, pendingRoom, saveTimeout, saveWithTyping, burst>>
  /\ UNCHANGED <<fixedVars, lwwVars, aiChunks, aiContext, now, store, data, isTyping,
                 typingTimeout, lastSavedContent, lastSavedMessages, inflight, editsLeft,
                 sendsLeft, lastTyped, edited, durable, persisted, suppressed, finalized,
                 exists, initStep, unmounted, failed, presenceState, presenceDirty,
                 onlineUsers, fetchError, editedAt, channelStatus, connection>>

\* the transport drops the presence of a client whose channel was removed
PresenceLeft(c) ==
  /\ c \notin connected
  /\ variant = "bc"
  /\ presenceState[c] # <<>>
  /\ presenceState' = [presenceState EXCEPT ![c] = <<>>]
  /\ presenceDirty' = SyncAll(presenceDirty)
  /\ UNCHANGED <<fixedVars, lwwVars, aiVars, now, store, data, isTyping, typingTimeout,
                 saveTimeout, saveWithTyping, pendingRoom, lastSavedContent,
                 lastSavedMessages, inflight, inbox, editsLeft, sendsLeft, lastTyped, edited,
                 burst, durable, persisted, suppressed, finalized, exists, initStep,
                 unmounted, failed, onlineUsers,
                 fetchError,
                 editedAt,
                 aiContext,
                 channelStatus,
                 connection,
                 dropped>>

\* channel.on('presence', {event: 'sync'}, ...): the handler reads the presence state
\* as it is now and hands the users to onPresenceUpdate
bcPresenceSync(c) ==
  /\ c \in connected
  /\ variant = "bc"
  /\ presenceDirty[c]
  /\ onlineUsers' = [onlineUsers EXCEPT ![c] =
                       onPresenceUpdate(onlineUsers[c], PresenceUsers(presenceState), c)]
  /\ presenceDirty' = [presenceDirty EXCEPT ![c] = FALSE]
  /\ UNCHANGED <<fixedVars, lwwVars, aiVars, now, store, data, isTyping, typingTimeout,
                 saveTimeout, saveWithTyping, pendingRoom, lastSavedContent,
                 lastSavedMessages, inflight, inbox, editsLeft, sendsLeft, lastTyped, edited,
                 burst, durable, persisted, suppressed, finalized, exists, initStep,
                 unmounted, failed, presenceState,
                 fetchError,
                 editedAt,
                 aiContext,
                 channelStatus,
                 connection,
                 dropped>>

\* ------------------------------------ store writes that fail
\* upsertRoom returns false: the timer callback of scheduleSave leaves lastSaved alone,
\* forceSave just returns
bcUpsertFails(c) ==
  /\ c \in connected \cup unmounted
  /\ variant = "bc"
  /\ inflight[c] # <<>>
  /\ inflight' = [inflight EXCEPT ![c] = Tail(inflight[c])]
  /\ failed' = [failed EXCEPT ![c] = TRUE]
  /\ UNCHANGED <<fixedVars, lwwVars, aiVars, now, store, data, isTyping, typingTimeout,
                 saveTimeout, saveWithTyping, pendingRoom, lastSavedContent,
                 lastSavedMessages, inbox, editsLeft, sendsLeft, lastTyped, edited, burst,
                 durable, persisted, suppressed, finalized, exists, initStep, unmounted,
                 presenceState,
                 presenceDirty,
                 onlineUsers,
                 fetchError,
                 editedAt,
                 aiContext,
                 channelStatus,
                 connection,
                 dropped>>

\* upsertRoom returns false: saveToServer logs and returns; a handleSendMessage awaiting
\* it goes on to the placeholder
dpUpsertFails(c) ==
  /\ c \in connected \cup unmounted
  /\ variant = "dp"
  /\ inflight[c] # <<>>
  /\ IF Head(inflight[c]).kind = "send"
     THEN /\ isAILoading' = [isAILoading EXCEPT ![c] = TRUE]
          /\ data' = [data EXCEPT ![c] =
                        [data[c] EXCEPT !.messages = Append(data[c].messages,
                                                            PlaceholderAiMsg(now + 1))]]
          /\ aiMsgId' = [aiMsgId EXCEPT ![c] = now + 1]
          /\ aiChunks' = [aiChunks EXCEPT ![c] = 0]
          /\ now' = now + 2
     ELSE UNCHANGED <<aiVars, data, now>>
  /\ inflight' = [inflight EXCEPT ![c] = Tail(inflight[c])]
  /\ failed' = [failed EXCEPT ![c] = TRUE]
  /\ UNCHANGED <<fixedVars, lwwVars, store, isTyping, typingTimeout, saveTimeout,
                 saveWithTyping, pendingRoom, lastSavedContent, lastSavedMessages, inbox,
                 editsLeft, sendsLeft, lastTyped, edited, burst, durable, persisted,
                 suppressed, finalized, exists, initStep, unmounted,
                 presenceState,
                 presenceDirty,
                 onlineUsers,
                 fetchError,
                 editedAt,
                 aiContext,
                 channelStatus,
                 connection,
                 dropped>>

\* updateRoom of supabaseService logs the error and returns, so persistRoom still
\* records the payload as the server state
lwwUpdateFails(c) ==
  /\ c \in connected
  /\ variant = "lww"
  /\ inflight[c] # <<>>
  /\ serverState' = [serverState EXCEPT ![c] = Head(inflight[c]).room]
  /\ inflight' = [inflight EXCEPT ![c] = Tail(inflight[c])]
  /\ failed' = [failed EXCEPT ![c] = TRUE]
  /\ UNCHANGED <<fixedVars, lastSent, aiVars, now, store, data, isTyping, typingTimeout,
                 saveTimeout, saveWithTyping, pendingRoom, lastSavedContent,
                 lastSavedMessages, inbox, editsLeft, sendsLeft, lastTyped, edited, burst,
                 durable, persisted, suppressed, finalized, exists, initStep, unmounted,
                 presenceState,
                 presenceDirty,
                 onlineUsers,
                 fetchError,
                 editedAt,
                 aiContext,
                 channelStatus,
                 connection,
                 dropped>>

\* ------------------------------------ opening and leaving the room ("bc", "dp")
NoRoom == [content |-> NoContent, messages |-> <<>>, updatedAt |-> 0]

\* variation: init shows a default room in place of the fetched row
fetchRoomDefault(present, row) == IF present THEN createDefaultRoom ELSE NoRoom

\* fetchRoom: the row, or null when the room is unknown
fetchRoom(present, row) == IF present THEN row ELSE NoRoom

\* the cleanup ran before the subscription of this init was made, so nothing removes it
Subscribes(c, step) ==
  IF step = "detached" THEN connected ELSE connected \cup {c}

\* init(): `await fetchRoom` (inside connect() for "bc") has returned. With a row, init
\* goes on to setData(room), records it as saved and is subscribed
initFetched(c) ==
  /\ variant \in {"bc", "dp"}
  /\ initStep[c] = "fetching"
  /\ LET room == fetchRoom(exists, store)
     IN IF room = NoRoom
        THEN /\ initStep' = [initStep EXCEPT ![c] = "absent"]
             /\ UNCHANGED <<connected, data, lastSavedContent, lastSavedMessages>>
        ELSE /\ initStep' = [initStep EXCEPT ![c] = "done"]
             /\ connected' = Subscribes(c, "fetching")
             /\ data' = [data EXCEPT ![c] = room]
             /\ lastSavedContent' = [lastSavedContent EXCEPT ![c] = room.content]
             /\ lastSavedMessages' = [lastSavedMessages EXCEPT ![c] = room.messages]
  /\ UNCHANGED <<variant, mergeArgs, mergeOut, lwwVars, aiVars, now, store, isTyping,
                 typingTimeout, saveTimeout, saveWithTyping, pendingRoom, inflight, inbox,
                 editsLeft, sendsLeft, lastTyped, edited, burst, durable, persisted,
                 suppressed, finalized, exists, unmounted,
                 failed,
                 presenceState,
                 presenceDirty,
                 onlineUsers,
                 fetchError,
                 editedAt,
                 aiContext,
                 channelStatus,
                 connection,
                 dropped>>

\* init(): the select of fetchRoom ended with an error (store unreachable, request
\* refused); fetchRoom logs it and returns null, as for a room that is not there
initFetchFails(c) ==
  /\ variant \in {"bc", "dp"}
  /\ initStep[c] = "fetching"
  /\ initStep' = [initStep EXCEPT ![c] = "absent"]
  /\ fetchError' = [fetchError EXCEPT ![c] = TRUE]
  /\ UNCHANGED <<fixedVars, lwwVars, aiVars, now, store, data, isTyping, typingTimeout,
                 saveTimeout, saveWithTyping, pendingRoom, lastSavedContent,
                 lastSavedMessages, inflight, inbox, editsLeft, sendsLeft, lastTyped, edited,
                 burst, durable, persisted, suppressed, finalized, exists, unmounted,
                 failed, presenceState, presenceDirty, onlineUsers,
                 editedAt,
                 aiContext,
                 channelStatus,
                 connection,
                 dropped>>

\* init(), `if (!room)`: the default room is written with upsertRoom, then shown
initCreate(c) ==
  /\ variant \in {"bc", "dp"}
  /\ initStep[c] \in {"absent", "detached"}
  /\ LET room == [createDefaultRoom EXCEPT !.updatedAt = IF variant = "dp" THEN now ELSE 0]
     IN /\ store' = room
        /\ exists' = TRUE
        /\ inbox' = NotifyAll(inbox, DbEvent(c, room))
        /\ data' = [data EXCEPT ![c] = room]
        /\ lastSavedContent' = [lastSavedContent EXCEPT ![c] = room.content]
        /\ lastSavedMessages' = [lastSavedMessages EXCEPT ![c] = room.messages]
  /\ connected' = Subscribes(c, initStep[c])
  /\ initStep' = [initStep EXCEPT ![c] = "created"]
  /\ now' = now + 1
  /\ UNCHANGED <<variant, mergeArgs, mergeOut, lwwVars, aiVars, isTyping, typingTimeout,
                 saveTimeout, saveWithTyping, pendingRoom, inflight, editsLeft, sendsLeft,
                 lastTyped, edited, burst, durable, persisted, suppressed, finalized,
                 unmounted,
                 failed,
                 presenceState,
                 presenceDirty,
                 onlineUsers,
                 fetchError,
                 editedAt,
                 aiContext,
                 channelStatus,
                 connection,
                 dropped>>

\* what every cleanup does: timers cleared, the channel (if there is one) removed
Unmount(c) ==
  /\ saveTimeout' = [saveTimeout EXCEPT ![c] = 0]
  /\ typingTimeout' = [typingTimeout EXCEPT ![c] = 0]
  /\ connected' = connected \ {c}
  /\ inbox' = [inbox EXCEPT ![c] = <<>>]
  /\ unmounted' = unmounted \cup {c}
  /\ editsLeft' = [editsLeft EXCEPT ![c] = 0]
  /\ sendsLeft' = [sendsLeft EXCEPT ![c] = 0]

\* the effect cleanup of the broadcast room view: forceSave(dataRef.current) when
\* there is data, disconnect(), clearTimeout(typingTimeoutRef.current). connect()
\* makes the channel after its fetch: a cleanup during the fetch removes nothing
bcCleanup(c) ==
  /\ variant = "bc"
  /\ c \notin unmounted
  /\ initStep[c] # "off"
  /\ Unmount(c)
  /\ inflight' = [inflight EXCEPT ![c] =
                    IF initStep[c] \in {"done", "created"}
                    THEN Append(inflight[c], Write(data[c], "force"))
                    ELSE inflight[c]]
  /\ initStep' = [initStep EXCEPT ![c] = IF @ = "absent" THEN "detached" ELSE @]
  /\ UNCHANGED <<variant, mergeArgs, mergeOut, lwwVars, aiVars, now, store, data, isTyping,
                 saveWithTyping, pendingRoom, lastSavedContent, lastSavedMessages, lastTyped,
                 edited, burst, durable, persisted, suppressed, finalized, exists,
                 failed,
                 presenceState,
                 presenceDirty,
                 onlineUsers,
                 fetchError,
                 editedAt,
                 aiContext,
                 channelStatus,
                 connection,
                 dropped>>

\* the effect cleanup of the change-feed room view: unsubscribe (if init has got that
\* far) and clear both timers. init subscribes as its last statement
dpCleanup(c) ==
  /\ variant = "dp"
  /\ c \notin unmounted
  /\ initStep[c] # "off"
  /\ Unmount(c)
  /\ UNCHANGED <<variant, mergeArgs, mergeOut, lwwVars, aiVars, now, store, data, isTyping,
                 saveWithTyping, pendingRoom, lastSavedContent, lastSavedMessages, inflight,
                 lastTyped, edited, burst, durable, persisted, suppressed, finalized,
                 exists, initStep,
                 failed,
                 presenceState,
                 presenceDirty,
                 onlineUsers,
                 fetchError,
                 editedAt,
                 aiContext,
                 channelStatus,
                 connection,
                 dropped>>

\* -------------------------------- last-writer-wins variant ("lww")
\* RoomData arguments only; the callers test for a missing snapshot before the call
\* variation: the incoming snapshot always wins
mergeAlwaysIncoming(local, incoming) == incoming

merge(local, incoming) ==
  IF incoming.updatedAt > local.updatedAt THEN incoming ELSE local

\* JSON.stringify(remote) of load: the whole row
SerializeRow(room) ==
  [id |-> "room", content |-> room.content, messages |-> room.messages,
   updatedAt |-> room.updatedAt]

\* JSON.stringify({content, messages, updatedAt}) of persistRoom
Serialize(payload) ==
  [content |-> payload.content, messages |-> payload.messages,
   updatedAt |-> payload.updatedAt]

lwwHandleContentChange(c, v) ==
  /\ c \in connected
  /\ variant = "lww"
  /\ editsLeft[c] > 0
  /\ v # data[c].content
  /\ data' = [data EXCEPT ![c] = applyLocalEdit(data[c], v)]
  /\ saveTimeout' = [saveTimeout EXCEPT ![c] = ArmSaveTimer(saveTimeout[c])]
  /\ editsLeft' = [editsLeft EXCEPT ![c] = editsLeft[c] - 1]
  /\ lastTyped' = [lastTyped EXCEPT ![c] = v]
  /\ edited' = [edited EXCEPT ![c] = TRUE]
  /\ burst' = [burst EXCEPT ![c] = BurstOnSchedule(c, TRUE, v)]
  /\ durable' = [durable EXCEPT ![c] = FALSE]
  /\ editedAt' = [editedAt EXCEPT ![c] = now]
  /\ UNCHANGED <<fixedVars, lwwVars, aiVars, now, store, isTyping, typingTimeout,
                 saveWithTyping, pendingRoom, lastSavedContent, lastSavedMessages,
                 inflight, inbox, sendsLeft, persisted, suppressed,
                 finalized,
                 exists,
                 initStep,
                 unmounted,
                 failed,
                 presenceState,
                 presenceDirty,
                 onlineUsers,
                 fetchError,
                 aiContext,
                 channelStatus,
                 connection,
                 dropped>>

\* the setTimeout callback of handleContentChange: persistRoom(currentData) up to
\* `await updateRoomRemote(payload)`
lwwSaveTimerFires(c) ==
  /\ c \in connected
  /\ variant = "lww"
  /\ saveTimeout[c] > 0
  /\ failed' = [failed EXCEPT ![c] = FALSE]
  /\ saveTimeout' = [saveTimeout EXCEPT ![c] = saveTimeout[c] - 1]
  /\ LET payload == [data[c] EXCEPT !.updatedAt = now]
         serialized == Serialize(payload)
     IN IF serialized = lastSent[c]
        THEN /\ burst' = [burst EXCEPT ![c] = BurstOnNoop(c)]
             /\ UNCHANGED <<lastSent, pendingRoom, inflight>>
        ELSE /\ lastSent' = [lastSent EXCEPT ![c] = serialized]
             /\ pendingRoom' = [pendingRoom EXCEPT ![c] = payload]
             /\ inflight' = [inflight EXCEPT ![c] = Append(inflight[c], Write(payload, "save"))]
             /\ burst' = [burst EXCEPT ![c] = BurstOnWrite(c, payload.content)]
  /\ now' = now + 1
  /\ UNCHANGED <<fixedVars, serverState, aiVars, store, data, isTyping, typingTimeout,
                 saveWithTyping, lastSavedContent, lastSavedMessages, inbox, editsLeft,
                 sendsLeft, lastTyped, edited, durable, persisted, suppressed,
                 finalized,
                 exists,
                 initStep,
                 unmounted,
                 presenceState,
                 presenceDirty,
                 onlineUsers,
                 fetchError,
                 editedAt,
                 aiContext,
                 channelStatus,
                 connection,
                 dropped>>

\* updateRoom of supabaseService writes the row; then persistRoom records it
lwwUpdateCompletes(c) ==
  /\ c \in connected
  /\ variant = "lww"
  /\ inflight[c] # <<>>
  /\ LET payload == Head(inflight[c]).room
     IN /\ store' = payload
        /\ inbox' = NotifyAll(inbox, DbEvent(c, payload))
        /\ serverState' = [serverState EXCEPT ![c] = payload]
        /\ durable' = [durable EXCEPT ![c] = @ \/ payload.content = lastTyped[c]]
        /\ persisted' = [persisted EXCEPT ![c] = Fingerprint(payload)]
  /\ inflight' = [inflight EXCEPT ![c] = Tail(inflight[c])]
  /\ UNCHANGED <<fixedVars, lastSent, aiVars, now, data, isTyping, typingTimeout,
                 saveTimeout, saveWithTyping, pendingRoom, lastSavedContent,
                 lastSavedMessages, editsLeft, sendsLeft, lastTyped, edited, burst,
                 suppressed,
                 finalized,
                 exists,
                 initStep,
                 unmounted,
                 failed,
                 presenceState,
                 presenceDirty,
                 onlineUsers,
                 fetchError,
                 editedAt,
                 aiContext,
                 channelStatus,
                 connection,
                 dropped>>

\* the subscribeToRoomRemote callback
lwwReceived(c) ==
  /\ c \in connected
  /\ variant = "lww"
  /\ inbox[c] # <<>>
  /\ LET newData == EventRoom(Head(inbox[c]))
         merged == merge(serverState[c], newData)
     IN /\ serverState' = [serverState EXCEPT ![c] = merged]
        /\ data' = [data EXCEPT ![c] = merge(data[c], merged)]
  /\ inbox' = [inbox EXCEPT ![c] = Tail(inbox[c])]
  /\ UNCHANGED <<fixedVars, lastSent, aiVars, now, store, isTyping, typingTimeout,
                 saveTimeout, saveWithTyping, pendingRoom, lastSavedContent,
                 lastSavedMessages, inflight, editsLeft, sendsLeft, lastTyped, edited,
                 burst, durable, persisted, suppressed,
                 finalized,
                 exists,
                 initStep,
                 unmounted,
                 failed,
                 presenceState,
                 presenceDirty,
                 onlineUsers,
                 fetchError,
                 editedAt,
                 aiContext,
                 channelStatus,
                 connection,
                 dropped>>

\* ------------------------------------------------ merge on its own
Snapshots == [content : Contents, messages : {<<WelcomeMsg>>}, updatedAt : 0..MaxStamp]

ApplyMerge ==
  /\ variant = "merge"
  /\ mergeOut = <<>>
  /\ mergeOut' = <<merge(mergeArgs[1], mergeArgs[2]), merge(mergeArgs[2], mergeArgs[1])>>
  /\ UNCHANGED <<variant, connected, mergeArgs, lwwVars, aiVars, now, store, data,
                 isTyping, typingTimeout, saveTimeout, saveWithTyping, pendingRoom,
                 lastSavedContent, lastSavedMessages, inflight, inbox, editsLeft,
                 sendsLeft, lastTyped, edited, burst, durable, persisted, suppressed,
                 finalized,
                 exists,
                 initStep,
                 unmounted,
                 failed,
                 presenceState,
                 presenceDirty,
                 onlineUsers,
                 fetchError,
                 editedAt,
                 aiContext,
                 channelStatus,
                 connection,
                 dropped>>

\* ------------------------------------------------ the history of the AI call
MaxHistory == 14
GeminiWindow == 12
GroqWindow == 10

\* a transcript: message i has id i; flags[i] is its isStreaming
Transcript(flags) ==
  [i \in DOMAIN flags |-> [id |-> i, isStreaming |-> flags[i]]]

Transcripts == {Transcript(f) : f \in UNION {[1..n -> BOOLEAN] : n \in 0..MaxHistory}}

\* Array.prototype.slice(-k)
SliceLast(s, k) == IF Len(s) <= k THEN s ELSE SubSeq(s, Len(s) - k + 1, Len(s))

\* variation: the window is cut before the streaming messages are removed
recentHistoryCutFirst(history, k) == SelectSeq(SliceLast(history, k), NotStreaming)

\* history.filter(m => !m.isStreaming).slice(-k)
recentHistory(history, k) == SliceLast(SelectSeq(history, NotStreaming), k)

ApplyHistory ==
  /\ variant = "history"
  /\ mergeOut = <<>>
  /\ mergeOut' = <<recentHistory(mergeArgs[1], mergeArgs[2])>>
  /\ UNCHANGED <<variant, connected, mergeArgs, lwwVars, aiVars, now, store, data,
                 isTyping, typingTimeout, saveTimeout, saveWithTyping, pendingRoom,
                 lastSavedContent, lastSavedMessages, inflight, inbox, editsLeft,
                 sendsLeft, lastTyped, edited, burst, durable, persisted, suppressed,
                 finalized, exists, initStep, unmounted, failed, presenceState,
                 presenceDirty, onlineUsers,
                 fetchError,
                 editedAt,
                 aiContext,
                 channelStatus,
                 connection,
                 dropped>>

\* ------------------------------------------------ the local fallback cache
RoomIds == {"r1", "r2"}

\* WELCOME_MESSAGES, by index
WelcomeMessages == {"w1", "w2", "w3", "w4", "w5"}

\* localStorage.getItem gives null when the key is absent
NoValue == [id |-> "", content |-> "", messages |-> <<>>, updatedAt |-> 0]

NoItem == [kind |-> "null", chars |-> "", value |-> NoValue]

\* JSON.stringify(value)
JSONstringify(value) == [kind |-> "json", chars |-> "", value |-> value]

\* a string no JSON.stringify produced: the empty string, a cut-off text
BrokenTexts == {[kind |-> "text", chars |-> t, value |-> NoValue] : t \in {"", "{\"id\":", "<html>"}}

\* JSON.parse(text): the value, or a SyntaxError
JSONparse(text) ==
  IF text.kind = "json"
  THEN [threw |-> FALSE, value |-> text.value]
  ELSE [threw |-> TRUE, value |-> NoValue]

\* truthiness of what getItem returned: null and the empty string are falsy
Truthy(item) == item # NoItem /\ ~(item.kind = "text" /\ item.chars = "")

LocalWelcome(w, t) == [id |-> "welcome-msg", text |-> w, senderId |-> "ai", timestamp |-> t]

\* the room literal at the end of getRoom
DefaultLocalRoom(roomId, w, t) ==
  [id |-> roomId, content |-> "", messages |-> <<LocalWelcome(w, t)>>, updatedAt |-> t]

\* the rooms saveRoom may have stored
StoredRooms ==
  {[id |-> r, content |-> v, messages |-> ms, updatedAt |-> t] :
     r \in RoomIds, v \in Contents, t \in 0..MaxStamp,
     ms \in {<<>>, <<LocalWelcome("w1", 0)>>,
             <<LocalWelcome("w1", 0), [id |-> "1", text |-> "hi", senderId |-> "user",
                                      timestamp |-> 1]>>}}

StoredItems ==
  {NoItem} \cup BrokenTexts \cup {JSONstringify(r) : r \in StoredRooms}

\* variation: the SyntaxError of JSON.parse is not caught
getRoomNoCatch(roomId, stored, w, t) ==
  IF Truthy(stored)
  THEN JSONparse(stored)
  ELSE [threw |-> FALSE, value |-> DefaultLocalRoom(roomId, w, t)]

\* getRoom: w is the welcome text drawn by getRandomWelcome, t is Date.now()
getRoom(roomId, stored, w, t) ==
  IF Truthy(stored) /\ ~JSONparse(stored).threw
  THEN JSONparse(stored)
  ELSE [threw |-> FALSE, value |-> DefaultLocalRoom(roomId, w, t)]

ApplyGetRoom ==
  /\ variant = "storage"
  /\ mergeOut = <<>>
  /\ \E w \in WelcomeMessages, t \in 0..MaxStamp :
       mergeOut' = <<getRoom(mergeArgs[1], mergeArgs[2], w, t)>>
  /\ UNCHANGED <<variant, connected, mergeArgs, lwwVars, aiVars, now, store, data,
                 isTyping, typingTimeout, saveTimeout, saveWithTyping, pendingRoom,
                 lastSavedContent, lastSavedMessages, inflight, inbox, editsLeft,
                 sendsLeft, lastTyped, edited, burst, durable, persisted, suppressed,
                 finalized, exists, initStep, unmounted, failed, presenceState,
                 presenceDirty, onlineUsers,
                 fetchError,
                 editedAt,
                 aiContext,
                 channelStatus,
                 connection,
                 dropped>>

\* ------------------------------------------------------- specifications
\* data is the fetched row and it is recorded as saved
InitData ==
  /\ now = 1
  /\ store = createDefaultRoom
  /\ data = [c \in Clients |-> createDefaultRoom]
  /\ isTyping = [c \in Clients |-> FALSE]
  /\ typingTimeout = [c \in Clients |-> 0]
  /\ saveTimeout = [c \in Clients |-> 0]
  /\ saveWithTyping = [c \in Clients |-> FALSE]
  /\ pendingRoom = [c \in Clients |-> createDefaultRoom]
  /\ lastSavedContent = [c \in Clients |-> createDefaultRoom.content]
  /\ lastSavedMessages = [c \in Clients |-> createDefaultRoom.messages]
  /\ lastSent = [c \in Clients |-> SerializeRow(createDefaultRoom)]
  /\ serverState = [c \in Clients |-> createDefaultRoom]
  /\ inflight = [c \in Clients |-> <<>>]
  /\ inbox = [c \in Clients |-> <<>>]
  /\ isAILoading = [c \in Clients |-> FALSE]
  /\ aiMsgId = [c \in Clients |-> 0]
  /\ aiChunks = [c \in Clients |-> 0]
  /\ lastTyped = [c \in Clients |-> NoContent]
  /\ edited = [c \in Clients |-> FALSE]
  /\ burst = [c \in Clients |-> NoBurst]
  /\ durable = [c \in Clients |-> FALSE]
  /\ persisted = [c \in Clients |-> NoFingerprint]
  /\ suppressed = [c \in Clients |-> FALSE]
  /\ finalized = [c \in Clients |-> NoFinal]
  /\ failed = [c \in Clients |-> FALSE]
  /\ presenceDirty = [c \in Clients |-> FALSE]
  /\ onlineUsers = [c \in Clients |-> <<>>]
  /\ fetchError = [c \in Clients |-> FALSE]
  /\ editedAt = [c \in Clients |-> 0]
  /\ aiContext = [c \in Clients |-> NoContent]
  /\ channelStatus = [c \in Clients |-> IF presenceState[c] # <<>> THEN "SUBSCRIBED" ELSE "none"]
  /\ connection = [c \in Clients |-> IF presenceState[c] # <<>> THEN "connected" ELSE "none"]
  /\ dropped = [c \in Clients |-> FALSE]

\* every connected client has run its initialisation, so the room row exists
InitLoaded ==
  /\ exists = (connected # {})
  /\ initStep = [c \in Clients |-> IF c \in connected THEN "done" ELSE "off"]
  /\ unmounted = {}
  /\ presenceState = [c \in Clients |->
                        IF c \in connected /\ variant = "bc" THEN <<Meta(c, FALSE)>> ELSE <<>>]

InitCommon == InitLoaded /\ InitData

NoMerge ==
  /\ mergeArgs = <<createDefaultRoom, createDefaultRoom>>
  /\ mergeOut = <<>>

\* editing scenario, broadcast variant: two users type, nobody chats
InitBc ==
  /\ variant = "bc"
  /\ connected = {"c1", "c2"}
  /\ editsLeft = [c \in Clients |-> IF c = "c1" THEN MaxEdits ELSE IF c = "c2" THEN MaxPeerEdits ELSE 0]
  /\ sendsLeft = [c \in Clients |-> 0]
  /\ NoMerge
  /\ InitCommon

\* editing scenario, change-feed variant: two users type, a third one watches
InitDp ==
  /\ variant = "dp"
  /\ connected = {"c1", "c2", "c3"}
  /\ editsLeft = [c \in Clients |-> IF c = "c1" THEN MaxEdits ELSE IF c = "c2" THEN MaxPeerEdits ELSE 0]
  /\ sendsLeft = [c \in Clients |-> 0]
  /\ NoMerge
  /\ InitCommon

\* chat scenario: c1 chats and types, c2 watches
InitChat ==
  /\ variant \in {"bc", "dp"}
  /\ connected = {"c1", "c2"}
  /\ editsLeft = [c \in Clients |-> IF c = "c1" THEN MaxChatEdits ELSE 0]
  /\ sendsLeft = [c \in Clients |-> IF c = "c1" THEN MaxSends ELSE 0]
  /\ NoMerge
  /\ InitCommon

\* chat scenario with a typing peer: c1 chats, c2 types
InitChatPeer ==
  /\ variant \in {"bc", "dp"}
  /\ connected = {"c1", "c2"}
  /\ editsLeft = [c \in Clients |-> IF c = "c2" THEN MaxPeerEdits ELSE 0]
  /\ sendsLeft = [c \in Clients |-> IF c = "c1" THEN MaxSends ELSE 0]
  /\ NoMerge
  /\ InitCommon

\* chat scenario with an impatient user: c1 may send twice, c2 watches
InitChatQuick ==
  /\ variant \in {"bc", "dp"}
  /\ connected = {"c1", "c2"}
  /\ editsLeft = [c \in Clients |-> 0]
  /\ sendsLeft = [c \in Clients |-> IF c = "c1" THEN MaxQuickSends ELSE 0]
  /\ NoMerge
  /\ InitCommon

\* two users open a room nobody has opened before; c1 types
InitOpen ==
  /\ variant \in {"bc", "dp"}
  /\ connected = {}
  /\ exists = FALSE
  /\ initStep = [c \in Clients |-> IF c \in {"c1", "c2"} THEN "fetching" ELSE "off"]
  /\ unmounted = {}
  /\ presenceState = [c \in Clients |-> <<>>]
  /\ editsLeft = [c \in Clients |-> IF c = "c1" THEN MaxOpenEdits ELSE 0]
  /\ sendsLeft = [c \in Clients |-> 0]
  /\ NoMerge
  /\ InitData

\* c1 is in a room that exists and types; c2 and c3 open it while the store may
\* answer a fetch with an error
InitReopen ==
  /\ variant \in {"bc", "dp"}
  /\ connected = {"c1"}
  /\ exists = TRUE
  /\ initStep = [c \in Clients |-> IF c = "c1" THEN "done" ELSE "fetching"]
  /\ unmounted = {}
  /\ presenceState = [c \in Clients |-> IF c = "c1" /\ variant = "bc"
                                       THEN <<Meta(c, FALSE)>> ELSE <<>>]
  /\ editsLeft = [c \in Clients |-> IF c = "c1" THEN MaxOpenEdits ELSE 0]
  /\ sendsLeft = [c \in Clients |-> 0]
  /\ NoMerge
  /\ InitData

\* an unreliable store: c1 types, c2 watches
InitFail ==
  /\ variant \in {"bc", "dp", "lww"}
  /\ connected = {"c1", "c2"}
  /\ editsLeft = [c \in Clients |-> IF c = "c1" THEN MaxFailEdits ELSE 0]
  /\ sendsLeft = [c \in Clients |-> 0]
  /\ NoMerge
  /\ InitCommon

\* broadcast variant: c1 and c2 are in the room, c1 types, c3 is opening it
InitPresence ==
  /\ variant = "bc"
  /\ connected = {"c1", "c2"}
  /\ exists = TRUE
  /\ initStep = [c \in Clients |-> IF c = "c3" THEN "fetching" ELSE "done"]
  /\ unmounted = {}
  /\ presenceState = [c \in Clients |-> IF c = "c3" THEN <<>> ELSE <<Meta(c, FALSE)>>]
  /\ editsLeft = [c \in Clients |-> IF c = "c1" THEN MaxPresenceEdits ELSE 0]
  /\ sendsLeft = [c \in Clients |-> 0]
  /\ NoMerge
  /\ InitData

\* last-writer-wins variant: c1 types, c2 watches
InitChannel ==
  /\ variant = "bc"
  /\ connected = {"c1", "c2"}
  /\ editsLeft = [c \in Clients |-> IF c = "c1" THEN MaxChannelEdits ELSE 0]
  /\ sendsLeft = [c \in Clients |-> IF c = "c1" THEN MaxSends ELSE 0]
  /\ NoMerge
  /\ InitCommon

InitLww ==
  /\ variant = "lww"
  /\ connected = {"c1", "c2"}
  /\ editsLeft = [c \in Clients |-> IF c = "c1" THEN MaxLwwEdits ELSE 0]
  /\ sendsLeft = [c \in Clients |-> 0]
  /\ NoMerge
  /\ InitCommon

\* merge applied to any two snapshots
InitMerge ==
  /\ variant = "merge"
  /\ connected = {}
  /\ editsLeft = [c \in Clients |-> 0]
  /\ sendsLeft = [c \in Clients |-> 0]
  /\ mergeArgs \in Snapshots \X Snapshots
  /\ mergeOut = <<>>
  /\ InitCommon

NextEdit ==
  \E c \in Clients :
    \/ \E v \in Contents : bcHandleContentChange(c, v)
    \/ bcSaveTimerFires(c)
    \/ bcUpsertCompletes(c)
    \/ bcBroadcastReceived(c)
    \/ bcDbChangeReceived(c)
    \/ TypingExpires(c)
    \/ \E v \in Contents : dpHandleContentChange(c, v)
    \/ dpSaveTimerFires(c)
    \/ dpUpsertCompletes(c)
    \/ dpReceived(c)

NextChat ==
  \/ NextEdit
  \/ \E c \in Clients :
       \/ bcHandleSendMessage(c)
       \/ StreamChunk(c)
       \/ StreamFails(c)
       \/ bcStreamCompletes(c)
       \/ dpHandleSendMessage(c)
       \/ dpStreamCompletes(c)

\* chatting only: nobody types
NextSend ==
  \E c \in Clients :
    \/ bcHandleSendMessage(c)
    \/ bcSaveTimerFires(c)
    \/ bcUpsertCompletes(c)
    \/ bcBroadcastReceived(c)
    \/ bcDbChangeReceived(c)
    \/ bcStreamCompletes(c)
    \/ StreamChunk(c)
    \/ StreamFails(c)
    \/ dpHandleSendMessage(c)
    \/ dpUpsertCompletes(c)
    \/ dpReceived(c)
    \/ dpStreamCompletes(c)

\* editing, with clients opening and leaving the room
NextOpen ==
  \/ NextEdit
  \/ \E c \in Clients :
       \/ initFetched(c)
       \/ initCreate(c)
       \/ bcCleanup(c)
       \/ dpCleanup(c)

NextChannel ==
  \E c \in Clients :
    \/ \E v \in Contents : bcHandleContentChange(c, v)
    \/ bcHandleSendMessage(c)
    \/ StreamChunk(c)
    \/ StreamFails(c)
    \/ bcStreamCompletes(c)
    \/ bcStreamEndsUnmounted(c)
    \/ bcBroadcastReceived(c)
    \/ bcSaveTimerFires(c)
    \/ TypingExpires(c)
    \/ bcChannelStatus(c)
    \/ bcCleanup(c)

NextReopen ==
  \/ NextOpen
  \/ \E c \in Clients : initFetchFails(c)

\* presence reads neither the store nor the content messages: the steps that
\* deliver them to the peers are left to SpecEdit
NextPresence ==
  \E c \in Clients :
    \/ \E v \in Contents : bcHandleContentChange(c, v)
    \/ bcSaveTimerFires(c)
    \/ TypingExpires(c)
    \/ initFetched(c)
    \/ bcCleanup(c)
    \/ bcSubscribed(c)
    \/ PresenceLeft(c)
    \/ bcPresenceSync(c)

NextFail ==
  \/ NextEdit
  \/ \E c \in Clients :
       \/ \E v \in Contents : lwwHandleContentChange(c, v)
       \/ lwwSaveTimerFires(c)
       \/ lwwUpdateCompletes(c)
       \/ lwwReceived(c)
       \/ bcUpsertFails(c)
       \/ dpUpsertFails(c)
       \/ lwwUpdateFails(c)

NextLww ==
  \E c \in Clients :
    \/ \E v \in Contents : lwwHandleContentChange(c, v)
    \/ lwwSaveTimerFires(c)
    \/ lwwUpdateCompletes(c)
    \/ lwwReceived(c)

InitEdit == InitBc \/ InitDp

\* both realtime variants, editing
SpecEdit == InitEdit /\ [][NextEdit]_vars

\* both realtime variants, chat
SpecChat == InitChat /\ [][NextChat]_vars

\* both realtime variants, chat beside a typing peer
SpecChatPeer == InitChatPeer /\ [][NextChat]_vars

\* both realtime variants, chat with up to two sends; aiMsgId follows the placeholder
\* appended last
SpecChatQuick == InitChatQuick /\ [][NextSend]_vars

\* both realtime variants, from the first opening of the room to the cleanup
SpecOpen == InitOpen /\ [][NextOpen]_vars

\* the three syncing revisions, editing, with store writes that may fail
SpecFail == InitFail /\ [][NextFail]_vars

\* broadcast variant with presence: clients join, type and leave
SpecPresence == InitPresence /\ [][NextPresence]_vars

\* both realtime variants, a room that exists is opened while fetches may fail
SpecReopen == InitReopen /\ [][NextReopen]_vars

\* broadcast variant, two clients joined: c1 types and chats while the channels
\* change status and a view may be unmounted
SpecChannel == InitChannel /\ [][NextChannel]_vars

SpecLww == InitLww /\ [][NextLww]_vars

SpecMerge == InitMerge /\ [][ApplyMerge]_vars

\* the history window applied to any transcript, for either service
InitHistory ==
  /\ variant = "history"
  /\ connected = {}
  /\ editsLeft = [c \in Clients |-> 0]
  /\ sendsLeft = [c \in Clients |-> 0]
  /\ mergeArgs \in Transcripts \X {GeminiWindow, GroqWindow}
  /\ mergeOut = <<>>
  /\ InitCommon

SpecHistory == InitHistory /\ [][ApplyHistory]_vars

\* getRoom applied to any room id and any stored item
InitStorage ==
  /\ variant = "storage"
  /\ connected = {}
  /\ editsLeft = [c \in Clients |-> 0]
  /\ sendsLeft = [c \in Clients |-> 0]
  /\ mergeArgs \in RoomIds \X StoredItems
  /\ mergeOut = <<>>
  /\ InitCommon

SpecStorage == InitStorage /\ [][ApplyGetRoom]_vars

\* ------------------------------------------------------------------ claims
WindowClosed(c) == saveTimeout[c] = 0 /\ burst[c].edits >= 1

Quiet(c) == saveTimeout[c] = 0 /\ inflight[c] = <<>>

Quiescent ==
  \A c \in connected :
    /\ Quiet(c)
    /\ typingTimeout[c] = 0
    /\ inbox[c] = <<>>
    /\ ~isAILoading[c]

\* the step handles the event at the head of the client's inbox
Delivers(c) == inbox[c] # <<>> /\ inbox'[c] = Tail(inbox[c])

\* the step issues a store write of the client
Issues(c) == Len(inflight'[c]) > Len(inflight[c])

HasFinal(msgs, id) == \E i \in 1..Len(msgs) : msgs[i].id = id /\ ~msgs[i].isStreaming

\* C1: while isTyping is true no remote update changes the client's content: it is
\* the value of the client's last local edit
C1_TypingSuppression ==
  \A c \in connected : isTyping[c] => data[c].content = lastTyped[c]

\* a remote content differing from the local one arrived while typing and was skipped
C1_Witness == \E c \in connected : isTyping[c] /\ suppressed[c]

\* C2 (as stated): the edits of one debounce window produce exactly one store write,
\* carrying the content of the last edit
C2_ExactlyOneWrite ==
  \A c \in connected :
    WindowClosed(c) => burst[c].writes = 1 /\ burst[c].sent = burst[c].last

\* C2 (amended): the edits of one debounce window produce at most one store write,
\* which carries the content of the last edit; none is issued exactly when the timer
\* finds the pending snapshot equal to the recorded last-saved content and messages
C2_AtMostOneWrite ==
  \A c \in connected :
    WindowClosed(c) =>
      \/ burst[c].writes = 1 /\ burst[c].sent = burst[c].last /\ ~burst[c].noop
      \/ burst[c].writes = 0 /\ burst[c].noop

\* several edits of one window were coalesced into one write
C2_Witness ==
  \E c \in connected : WindowClosed(c) /\ burst[c].edits >= 2 /\ burst[c].writes = 1

\* C3: with no other writer, once the client's debounce timer has fired and its
\* writes have completed, the store row holds the content of the client's last edit
C3_FinalKeystrokeDurable ==
  \A c \in connected :
    (edited[c] /\ Quiet(c) /\ \A d \in Others(c) : ~edited[d])
      => store.content = lastTyped[c]

\* C4: no store write is issued for a snapshot whose fingerprint is that of the
\* client's last completed write, which the store row still holds
C4_FingerprintNoOp ==
  [][\A c \in connected :
       (Issues(c) /\ inflight[c] = <<>>)
         => ~(/\ Fingerprint(inflight'[c][1].room) = persisted[c]
              /\ Fingerprint(store) = persisted[c])]_vars

\* C5: for snapshots A, B with A.updatedAt < B.updatedAt, merge(A, B) and merge(B, A)
\* are both B
C5_LwwDeterminism ==
  (mergeOut # <<>> /\ mergeArgs[1].updatedAt < mergeArgs[2].updatedAt)
    => mergeOut[1] = mergeArgs[2] /\ mergeOut[2] = mergeArgs[2]

\* merge was applied, both ways, to two different snapshots, the first one older
C5_Witness ==
  /\ mergeOut # <<>>
  /\ mergeArgs[1].updatedAt < mergeArgs[2].updatedAt
  /\ mergeArgs[1].content # mergeArgs[2].content

\* C6: when local and incoming snapshot have equal updatedAt, merge(local, incoming)
\* is the incoming snapshot
C6_TieIncoming ==
  (mergeOut # <<>> /\ mergeArgs[1].updatedAt = mergeArgs[2].updatedAt)
    => mergeOut[1] = mergeArgs[2]

\* C7: when a remote snapshot is delivered to a client that is not typing and has not
\* edited, the client keeps the one of the local and the incoming snapshot with the
\* later updatedAt, whatever the order of arrival
C7_ArrivalOrderIndependence ==
  [][\A c \in connected :
       (Delivers(c) /\ Head(inbox[c]).type = "db" /\ ~isTyping[c] /\ ~edited[c])
         => LET incoming == EventRoom(Head(inbox[c]))
            IN /\ incoming.updatedAt > data[c].updatedAt => data'[c] = incoming
               /\ incoming.updatedAt < data[c].updatedAt => data'[c] = data[c]]_vars

\* C8: a remote update leaves the placeholder of the client's outstanding send in the
\* local message list, unless the update carries the same id finalized
C8_StreamingPreservation ==
  [][\A c \in connected :
       (/\ Delivers(c)
        /\ aiMsgId[c] # 0
        /\ HasId(data[c].messages, aiMsgId[c])
        /\ ~HasFinal(Head(inbox[c]).messages, aiMsgId[c]))
         => HasId(data'[c].messages, aiMsgId[c])]_vars

\* C9: no two messages of a client's local message list share an id
C9_MessageIdUniqueness == \A c \in connected : UniqueIds(data[c].messages)

\* C10: once all timers have fired, all writes have completed (each client's last
\* edit has reached the store) and every event has been delivered, every client's
\* content is the content of the store row
C10_Convergence ==
  (Quiescent /\ \A c \in connected : edited[c] => durable[c])
    => \A c \in connected : data[c].content = store.content

\* C11: a remote update handled while the client is typing still brings its finished
\* chat messages into the client's local message list
C11_MessagesMergedWhileTyping ==
  [][\A c \in connected :
       (Delivers(c) /\ isTyping[c] /\ Head(inbox[c]).type \in {"messages", "db"})
         => \A i \in 1..Len(Head(inbox[c]).messages) :
              LET m == Head(inbox[c]).messages[i]
              IN ~m.isStreaming => HasId(data'[c].messages, m.id)]_vars

\* the step is a chat send of the client
Sends(c) == sendsLeft'[c] < sendsLeft[c]

\* C12: a chat send issues, in the send itself and without any debounce timer, a store
\* write of the snapshot holding the new user message
C12_SendBypassesDebounce ==
  [][\A c \in connected :
       Sends(c)
         => /\ Issues(c)
            /\ HasId(inflight'[c][Len(inflight'[c])].room.messages, now)]_vars

\* the row holds message id, not streaming, with the given text
HasFinalText(msgs, id, t) ==
  \E i \in 1..Len(msgs) : msgs[i].id = id /\ ~msgs[i].isStreaming /\ msgs[i].text = t

\* C13: once a send's stream has delivered its chunks and completed, and the client's
\* timers, writes and events have run out, the store row holds the reply's id with the
\* text of the last chunk and isStreaming = false
C13_FinalPersisted ==
  \A c \in connected :
    (Quiescent /\ finalized[c].id # 0 /\ finalized[c].text >= 1)
      => HasFinalText(store.messages, finalized[c].id, finalized[c].text)

\* C14: the step that ends a send (stream completed or failed) leaves the reply's id in
\* the local message list with isStreaming = false
C14_LifecycleCompletes ==
  [][\A c \in connected :
       (aiMsgId[c] # 0 /\ finalized'[c] # finalized[c])
         => HasFinal(data'[c].messages, aiMsgId[c])]_vars

\* a send of the client has not finished: its store write or its stream is under way
Outstanding(c) ==
  \/ isAILoading[c]
  \/ \E i \in 1..Len(inflight[c]) : inflight[c][i].kind = "send"

\* C15: no send of a client starts while an earlier send of the same client is
\* outstanding, the store write that precedes the AI call included
C15_OneOutstandingSend ==
  [][\A c \in connected : Sends(c) => ~Outstanding(c)]_vars

\* the step is the return of the client's initial fetch with a row
Loads(c) == initStep[c] = "fetching" /\ initStep'[c] = "done"

\* the step is the default-room write of the client's init
Creates(c) == initStep[c] \in {"absent", "detached"} /\ initStep'[c] = "created"

\* the step is the client's effect cleanup
Leaves(c) == c \notin unmounted /\ c \in unmounted'

C17_InsertIfAbsent ==
  [][\A c \in Clients :
       (Creates(c) /\ exists) => Fingerprint(store') = Fingerprint(store)]_vars

\* C18: a cleanup that finds the debounce timer armed issues a store write carrying the
\* client's local snapshot
C18_TeardownFlushes ==
  [][\A c \in Clients :
       (Leaves(c) /\ saveTimeout[c] > 0)
         => /\ Issues(c)
            /\ Fingerprint(inflight'[c][Len(inflight'[c])].room) = Fingerprint(data[c])]_vars

\* C19: once a client's cleanup has run, none of its timers is armed and it is not
\* subscribed to the room's events
C19_TeardownCancels ==
  \A c \in unmounted :
    /\ saveTimeout[c] = 0
    /\ typingTimeout[c] = 0
    /\ c \notin connected

\* the step is the firing of the client's debounce timer
Fires(c) == saveTimeout'[c] < saveTimeout[c] /\ c \notin unmounted'

\* the snapshot the client's debounce cycle is about
CycleSnapshot(c) == IF variant = "bc" THEN pendingRoom[c] ELSE data[c]

\* what the client knows to be in the store by its own doing: its last completed
\* write, or before any the row it loaded
LastPersisted(c) ==
  IF persisted[c] = NoFingerprint THEN Fingerprint(createDefaultRoom) ELSE persisted[c]

\* C20: the first firing of the debounce timer after a failed store write issues a
\* store write when the snapshot differs from the one the client last persisted
C20_FailedWriteRetriedNextCycle ==
  [][\A c \in connected :
       (Fires(c) /\ failed[c] /\ Fingerprint(CycleSnapshot(c)) # LastPersisted(c))
         => Issues(c)]_vars

\* the step replaces the content or the messages of the store row
Replaces == Fingerprint(store') # Fingerprint(store)

\* C21: a store write that replaces the row's content or messages leaves the row with
\* an updatedAt later than the one it had
C21_UpdatedAtFollowsWrite ==
  [][Replaces => store'.updatedAt > store.updatedAt]_vars

\* the step is a local edit of the client
Edits(c) == editsLeft'[c] < editsLeft[c]

\* C22: an edit sets isTyping and leaves exactly one typing timer armed; isTyping is
\* true exactly while that timer is armed; a remote content delivered to a client that
\* is not typing becomes its content
C22_TypingWindow ==
  [][\A c \in connected :
       /\ Edits(c) => isTyping'[c] /\ typingTimeout'[c] = 1
       /\ isTyping'[c] <=> typingTimeout'[c] > 0
       /\ (Delivers(c) /\ ~isTyping[c] /\ Head(inbox[c]).type \in {"content", "db"})
            => data'[c].content = Head(inbox[c]).content]_vars

\* a client that has used up its edits is no longer typing and shows a remote content
C22_Witness ==
  \E c \in connected :
    /\ edited[c] /\ editsLeft[c] = 0
    /\ ~isTyping[c] /\ typingTimeout[c] = 0
    /\ data[c].content # lastTyped[c]

\* C23: right after an edit the client's content is the argument of that edit, and
\* until an event is delivered to the client or it edits again its content stays
C23_LocalEditsInOrder ==
  [][\A c \in connected :
       /\ Edits(c) => data'[c].content = lastTyped'[c]
       /\ (~Edits(c) /\ ~Delivers(c)) => data'[c].content = data[c].content]_vars

\* two edits in a row, nothing delivered in between: the second one shows
C23_Witness ==
  \E c \in connected :
    /\ burst[c].edits >= 2
    /\ isTyping[c]
    /\ data[c].content = lastTyped[c]
    /\ data[c].content # ""

\* the step handles a presence sync event at the client
Syncs(c) == presenceDirty[c] /\ ~presenceDirty'[c]

UserIds(users) == {users[i].id : i \in 1..Len(users)}

\* C24: after a presence sync event the client's online users are the members of the
\* presence state at that moment, the client itself left out, each with the typing
\* flag the state holds
C24_PresenceReplaced ==
  [][\A c \in connected :
       Syncs(c)
         => /\ UserIds(onlineUsers'[c]) = {d \in Clients : presenceState[d] # <<>>} \ {c}
            /\ \A i \in 1..Len(onlineUsers'[c]) :
                 LET u == onlineUsers'[c][i]
                 IN \E j \in 1..Len(presenceState[u.id]) :
                      presenceState[u.id][j].isTyping = u.isTyping]_vars

\* a member the client showed has left, and after the sync it is no longer shown
C24_Witness ==
  \E c \in connected, d \in unmounted :
    /\ presenceState[d] = <<>>
    /\ ~presenceDirty[c]
    /\ d \notin UserIds(onlineUsers[c])
    /\ onlineUsers[c] # <<>>

\* the step ends the client's send and is not the completion of a stream that
\* delivered its text: it is the catch block of streamAIResponse and what follows it
Fails(c) ==
  /\ isAILoading[c] /\ ~isAILoading'[c] /\ c \in connected'
  /\ aiChunks[c] = 0 \/ aiChunks'[c] # aiChunks[c]

Settled(history) == {i \in 1..Len(history) : ~history[i].isStreaming}

\* C26: the history handed to the model holds no streaming message, keeps the
\* transcript's order, has min(K, number of settled messages) entries, and every
\* settled message left out is older than every message kept
C26_HistoryWindow ==
  (variant = "history" /\ mergeOut # <<>>)
    => LET history == mergeArgs[1]
           K == mergeArgs[2]
           out == mergeOut[1]
           kept == {out[i].id : i \in 1..Len(out)}
       IN /\ kept \subseteq Settled(history)
          /\ \A i \in 1..Len(out) : out[i] = history[out[i].id]
          /\ \A i, j \in 1..Len(out) : i < j => out[i].id < out[j].id
          /\ Len(out) = IF Cardinality(Settled(history)) < K
                        THEN Cardinality(Settled(history)) ELSE K
          /\ \A o \in Settled(history) \ kept : \A n \in kept : o < n

\* the Gemini window applied to a transcript with more than K settled messages and a
\* streaming message among its last K
C26_Witness ==
  /\ variant = "history"
  /\ mergeOut # <<>>
  /\ mergeArgs[2] = GeminiWindow
  /\ Cardinality(Settled(mergeArgs[1])) > GeminiWindow
  /\ \E i \in 1..Len(mergeArgs[1]) :
       i > Len(mergeArgs[1]) - GeminiWindow /\ mergeArgs[1][i].isStreaming

\* C27: getRoom returns normally for every stored item, and when the item is missing
\* or is not parseable the value returned is a room with the requested id, empty
\* content and the welcome message as its only message
C27_GetRoomDefaults ==
  (variant = "storage" /\ mergeOut # <<>>)
    => LET roomId == mergeArgs[1]
           stored == mergeArgs[2]
           out == mergeOut[1]
       IN /\ ~out.threw
          /\ (stored = NoItem \/ JSONparse(stored).threw)
               => /\ out.value.id = roomId
                  /\ out.value.content = ""
                  /\ Len(out.value.messages) = 1
                  /\ out.value.messages[1].id = "welcome-msg"
                  /\ out.value.messages[1].text \in WelcomeMessages

\* getRoom was applied to a stored text that JSON.parse rejects
C27_Witness ==
  /\ variant = "storage"
  /\ mergeOut # <<>>
  /\ mergeArgs[2] \in BrokenTexts
  /\ mergeArgs[2].chars # ""
  /\ mergeOut[1].value.id = mergeArgs[1]

\* the room handed to the store by the write the client issued last
LastIssued(c) == inflight'[c][Len(inflight'[c])].room

\* C28: the write issued by a firing debounce timer carries the content and the
\* settled messages the client's local snapshot has at that moment
C28_TimerWritesCurrent ==
  [][\A c \in connected :
       (Fires(c) /\ Len(inflight'[c]) > Len(inflight[c]))
         => /\ LastIssued(c).content = data[c].content
            /\ SelectSeq(LastIssued(c).messages, NotStreaming)
                 = SelectSeq(data[c].messages, NotStreaming)]_vars

\* the step handles, at client c, an event that c's own write or broadcast caused
HandlesOwn(c) ==
  /\ inbox[c] # <<>>
  /\ inbox'[c] = Tail(inbox[c])
  /\ Head(inbox[c]).sender = c

\* C29: in the broadcast revision, handling an event caused by the client's own
\* broadcast or store write leaves the client's local snapshot as it is
C29_OwnUpdateNotApplied ==
  [][\A c \in connected :
       (variant = "bc" /\ HandlesOwn(c)) => data'[c] = data[c]]_vars

\* the ids of the messages of a list that are not streaming
SettledIds(msgs) == {msgs[i].id : i \in {j \in 1..Len(msgs) : ~msgs[j].isStreaming}}

MessageIds(msgs) == {msgs[i].id : i \in 1..Len(msgs)}

\* C30: in the broadcast revision a settled message of the store row is in every row
\* written later: no step takes its id out of the row
C30_MessagesStayInStore ==
  [][variant = "bc" => SettledIds(store.messages) \subseteq MessageIds(store'.messages)]_vars

\* C31: the default-room write of a client whose fetch ended with an error leaves the
\* content and the messages of a row that exists as they are
C31_FetchErrorKeepsRow ==
  [][\A c \in Clients :
       (Creates(c) /\ fetchError[c] /\ exists)
         => Fingerprint(store') = Fingerprint(store)]_vars

\* what the client's channel holds as last saved
LastSaved(c) == [content |-> lastSavedContent[c], messages |-> lastSavedMessages[c]]

\* C32: in the broadcast revision the last-saved content and messages of a client are
\* those of the snapshot its most recent completed store write carried, or before any
\* write those given to setInitialState
C32_LastSavedIsLastWritten ==
  \A c \in connected : variant = "bc" => LastSaved(c) = LastPersisted(c)

\* the step handles, at client c, a row change whose snapshot was stamped and written
\* before c's latest local edit
HandlesStale(c) ==
  /\ inbox[c] # <<>>
  /\ inbox'[c] = Tail(inbox[c])
  /\ edited[c]
  /\ Head(inbox[c]).updatedAt < editedAt[c]

\* C33: in the last-writer-wins revision a row change whose snapshot was written before
\* the client's latest local edit leaves the content the user typed in place
C33_StaleNotificationKeepsEdit ==
  [][\A c \in connected :
       (variant = "lww" /\ HandlesStale(c) /\ data[c].content = lastTyped[c])
         => data'[c].content = lastTyped[c]]_vars

\* the list holds a copy of the id that is still streaming
HasStreaming(msgs, id) == \E i \in 1..Len(msgs) : msgs[i].id = id /\ msgs[i].isStreaming

\* C34: once a client has finalized its reply, the store row holds the reply with
\* isStreaming = false, and every timer, write and notification has run out, no other
\* client's local list holds a copy of that reply that is still streaming
C34_NoStreamingLeftOver ==
  \A c \in connected, d \in connected :
    (Quiescent /\ c # d /\ finalized[c].id # 0 /\ HasFinal(store.messages, finalized[c].id))
      => ~HasStreaming(data[d].messages, finalized[c].id)

\* the step in which the client's AI call is started
StartsStream(c) == ~isAILoading[c] /\ isAILoading'[c]

\* C35: the document context passed to the AI is the client's local note
\* content at the moment the completion is started, a local edit or an applied
\* remote update between the send and the start of the stream included.
C35_ContextIsCurrentContent ==
  [][\A c \in connected :
       StartsStream(c) => aiContext'[c] = data[c].content]_vars

\* a broadcast of c reaches d in this step
Reaches(c, d) ==
  /\ Len(inbox'[d]) > Len(inbox[d])
  /\ inbox'[d][Len(inbox'[d])].type \in {"content", "messages"}
  /\ inbox'[d][Len(inbox'[d])].sender = c

\* c makes a broadcast call in this step: it types, sends or ends its reply
Calls(c) ==
  \/ (editsLeft'[c] < editsLeft[c] /\ unmounted' = unmounted)
  \/ (sendsLeft'[c] < sendsLeft[c] /\ unmounted' = unmounted)
  \/ (isAILoading[c] /\ ~isAILoading'[c])

Reports(c) == bcSubscribed(c) \/ bcChannelStatus(c)

\* C37: the status handed to the session is 'connected' exactly when the
\* channel's latest status is SUBSCRIBED, 'disconnected' when it is CLOSED or
\* CHANNEL_ERROR and 'connecting' for every other status; in every step in which
\* the channel reports SUBSCRIBED the client's presence becomes isTyping = false.
C37_ConnectionFollowsChannel ==
  /\ [](\A c \in Clients :
          channelStatus[c] # "none" =>
            /\ (connection[c] = "connected") = (channelStatus[c] = "SUBSCRIBED")
            /\ (connection[c] = "disconnected") = (channelStatus[c] \in {"CLOSED", "CHANNEL_ERROR"})
            /\ (connection[c] = "connecting") = (channelStatus[c] \notin {"SUBSCRIBED", "CLOSED", "CHANNEL_ERROR"}))
  /\ [][\A c \in Clients :
         (Reports(c) /\ channelStatus'[c] = "SUBSCRIBED")
           => presenceState'[c] = <<Meta(c, FALSE)>>]_vars

\* c1 typed while its transport was down and is still typing; its channel is
\* SUBSCRIBED again, reported as connected, and its presence says isTyping =
\* false; c2's channel has timed out and is reported as connecting
C37_Witness_ResubscribedWhileTyping ==
  /\ dropped["c1"]
  /\ isTyping["c1"]
  /\ channelStatus["c1"] = "SUBSCRIBED"
  /\ connection["c1"] = "connected"
  /\ presenceState["c1"] = <<Meta("c1", FALSE)>>
  /\ channelStatus["c2"] = "TIMED_OUT"
  /\ connection["c2"] = "connecting"

====
